---- MODULE Spec2Model ----
(***************************************************************************)
(* Model of the TFM library feature of Mixxx:                              *)
(*   - TFMApiClient  (src/library/tfm/tfmapiclient.cpp): asynchronous      *)
(*     JSON API client with page aggregation for channel / folder listings *)
(*   - TFMTrackModel (src/library/tfm/tfmtrackmodel.cpp): cache probe and  *)
(*     synchronous download of a track (getTrack / downloadTrackSync)      *)
(* QString values that the code inspects character by character are       *)
(* sequences of one-character strings; opaque ones are TLA+ strings.       *)
(***************************************************************************)
EXTENDS Integers, Sequences, FiniteSets, TLC

(***************************************************************************)
(* Bounds of the model                                                     *)
(***************************************************************************)
\* number of network replies the API client may create in one behaviour
MaxReplies == 3

\* requests issued in one behaviour when every operation is enabled
MaxApiReplies == 2

\* numbers of elements in the item array of one response
ItemCounts == 0..1
\* page numbers a response envelope reports
ReportedPages == 1..2

\* an optional JSON member: Absent when missing, Some(v) when present
Absent == <<>>
Some(v) == <<v>>

ChannelIds == {"1"}
\* a second channel, listed only where the pages are observed (SpecPages)
OtherChannelIds == {"2"}
FolderIds == {"f"}
FolderPaths == {"d"}
Queries == {"q"}
\* the `limit` argument of fetchChannelTracks / fetchFolderContents
Limits == {50}
\* arguments of setServerUrl
ServerUrls == {<<>>, <<"h">>, <<"h", "/">>, <<"/">>}

VARIABLES
    m_serverUrl,          \* TFMApiClient::m_serverUrl
    m_pendingReplies,     \* TFMApiClient::m_pendingReplies (QList of replies)
    m_paginatedRequests,  \* TFMApiClient::m_paginatedRequests (QMap key -> PaginatedRequest)
    network,              \* replies created by QNetworkAccessManager::get, not yet finished
    nextReply,            \* identity of the next reply object
    emitted,              \* signals emitted by the last operation, in order
    fetches,              \* history: one record per logical paginated fetch
    current,              \* history: the fetch most recently started under each key
    handled,              \* history: the reply and response processed by the last
                          \* operation when it was onReplyFinished, else empty
    seen                  \* history: the response that reply carried, kept only
                          \* where the pages are observed (SpecPages)

apiVars == <<m_serverUrl, m_pendingReplies, m_paginatedRequests, network,
             nextReply, emitted, fetches, current, handled>>

(***************************************************************************)
(* Helpers                                                                 *)
(***************************************************************************)
Range(s) == {s[i] : i \in 1..Len(s)}

RECURSIVE Flatten(_)
Flatten(ss) == IF ss = <<>> THEN <<>> ELSE Head(ss) \o Flatten(Tail(ss))

RemoveAll(s, x) == SelectSeq(s, LAMBDA e : e # x)

\* while (m_serverUrl.endsWith('/')) m_serverUrl.chop(1);
RECURSIVE ChopSlashes(_)
ChopSlashes(s) ==
    IF Len(s) > 0 /\ s[Len(s)] = "/"
    THEN ChopSlashes(SubSeq(s, 1, Len(s) - 1))
    ELSE s

\* QString requestKey = "channel:" + channelId;
ChannelKey(channelId) == "channel:" \o channelId
\* QString requestKey = "folder:" + channelId + ":" + folderId;
FolderKey(channelId, folderId) == "folder:" \o channelId \o ":" \o folderId

AllKeys == {ChannelKey(c) : c \in ChannelIds \cup OtherChannelIds}
           \cup {FolderKey(c, f) : c \in ChannelIds, f \in FolderIds}

PagedTypes == {"fetchChannelTracks", "fetchFolderContents"}

\* one key for every listing of a channel, folder or not
ReplyKeyPerChannel(r) ==
    IF r.requestType \in PagedTypes THEN ChannelKey(r.channelId) ELSE ""

\* the key under which handleResponse accumulates the response of reply r
ReplyKey(r) ==
    IF r.requestType = "fetchChannelTracks" THEN ChannelKey(r.channelId)
    ELSE IF r.requestType = "fetchFolderContents" THEN FolderKey(r.channelId, r.folderId)
    ELSE ""

\* struct PaginatedRequest, default-constructed
PaginatedRequest ==
    [channelId |-> "", folderId |-> "", accumulatedTracks |-> <<>>,
     currentPage |-> 1, pageSize |-> 100, totalPages |-> 1]

\* struct PaginationInfo, default-constructed
PaginationInfo ==
    [page |-> 1, pageSize |-> 100, totalItems |-> 0, totalPages |-> 1,
     hasNext |-> FALSE, hasPrevious |-> FALSE]

\* QJsonValue::toInt(def) / toBool(def) of a member that may be missing
ToInt(v, def) == IF v = Absent THEN def ELSE v[1]
ToBool(v, def) == IF v = Absent THEN def ELSE v[1]

\* a parser for which a missing hasNext means that more pages follow
parsePaginationMoreByDefault(p) ==
    IF p = Absent
    THEN [PaginationInfo EXCEPT !.hasNext = TRUE]
    ELSE [page |-> ToInt(p[1].page, 1),
          pageSize |-> ToInt(p[1].pageSize, 100),
          totalItems |-> 0,
          totalPages |-> ToInt(p[1].totalPages, 1),
          hasNext |-> ToBool(p[1].hasNext, TRUE),
          hasPrevious |-> FALSE]

\* TFMApiClient::parsePagination; p is the "pagination" member of the envelope
parsePagination(p) ==
    IF p = Absent
    THEN PaginationInfo
    ELSE [page |-> ToInt(p[1].page, 1),
          pageSize |-> ToInt(p[1].pageSize, 100),
          totalItems |-> 0,
          totalPages |-> ToInt(p[1].totalPages, 1),
          hasNext |-> ToBool(p[1].hasNext, FALSE),
          hasPrevious |-> FALSE]

\* TFMApiClient::parseTrack: the fields of one JSON element; channelId is not
\* part of the JSON element and stays empty
parseTrack(json) == [id |-> json.id, channelId |-> "", isFolder |-> json.isFolder]

\* a handler that reads the item array only when "data" is the array itself
ExtractItemsArrayOnly(data) == IF data.type = "array" THEN data.arr ELSE <<>>

\* the item array a paginated handler reads from the "data" member:
\* the array itself, or the "items" member of an object
ExtractItems(data) ==
    IF data.type = "array" THEN data.arr
    ELSE IF data.type = "object" /\ data.hasItems THEN data.items
    ELSE <<>>

\* QJsonValue::toArray() of the "data" member (non-paginated handlers)
DataToArray(data) == IF data.type = "array" THEN data.arr ELSE <<>>

\* dataObj.value("items").toArray() when "data" is an object (local listings)
LocalItems(data) ==
    IF data.type = "object" /\ data.hasItems THEN data.items ELSE <<>>

\* tracks parsed from the array and left as parseTrack returns them
StampTracksUnstamped(arr, channelId) == [i \in 1..Len(arr) |-> parseTrack(arr[i])]

\* tracks parsed from the array, each stamped with the reply's channel id
StampTracks(arr, channelId) ==
    [i \in 1..Len(arr) |-> [parseTrack(arr[i]) EXCEPT !.channelId = channelId]]

\* a page put in front of the accumulation instead of behind it
AccumulatePrepend(acc, tracks) == tracks \o acc

\* m_paginatedRequests[requestKey].accumulatedTracks.append(tracks)
Accumulate(acc, tracks) == acc \o tracks

(***************************************************************************)
(* The server and the transport: what a finished reply can carry           *)
(***************************************************************************)
\* the JSON elements of the item array answering the request for `page` of
\* logical fetch `fetch`; the identifiers name the request that delivered them
JsonItems(fetch, page, n) ==
    [i \in 1..n |-> [id |-> <<fetch, page, i>>, isFolder |-> (i % 2 = 1)]]

\* the shapes of the "data" member
DataValues(r) ==
    {[type |-> "array", arr |-> JsonItems(r.fetch, r.page, n)] : n \in ItemCounts}
    \cup {[type |-> "object", hasItems |-> TRUE,
           items |-> JsonItems(r.fetch, r.page, n)] : n \in ItemCounts}
    \cup {[type |-> "object", hasItems |-> FALSE, items |-> <<>>]}
    \cup {[type |-> "null"]}

\* the "pagination" member: missing, an object with every member present, an
\* object in which only hasNext is missing, or an object in which every member
\* but hasNext (or every member) is missing
PaginationValues ==
    {Absent}
    \cup {Some([page |-> Some(p), pageSize |-> Some(50),
                totalPages |-> Some(2), hasNext |-> Some(h)])
          : p \in ReportedPages, h \in BOOLEAN}
    \cup {Some([page |-> Some(p), pageSize |-> Some(50),
                totalPages |-> Some(2), hasNext |-> Absent])
          : p \in ReportedPages}
    \cup {Some([page |-> Absent, pageSize |-> Absent, totalPages |-> Absent,
                hasNext |-> h]) : h \in {Absent, Some(TRUE)}}

\* everything a finished reply can carry
Responses(r) ==
    IF r.aborted
    THEN {[kind |-> "netError", errorString |-> "Operation canceled"]}
    ELSE {[kind |-> "netError", errorString |-> "Connection refused"]}
         \cup {[kind |-> "malformed", errorString |-> "illegal value"]}
         \cup {[kind |-> "json", success |-> FALSE, error |-> e, message |-> m,
                data |-> [type |-> "null"], pagination |-> Absent]
               : e \in {"", "denied"}, m \in {"", "try later"}}
         \cup {[kind |-> "json", success |-> TRUE, error |-> "", message |-> "",
                data |-> d, pagination |-> p]
               : d \in DataValues(r), p \in PaginationValues}

(***************************************************************************)
(* Signals                                                                 *)
(***************************************************************************)
SigRequestStarted == [name |-> "requestStarted"]
SigRequestFinished == [name |-> "requestFinished"]
SigApiError(msg) == [name |-> "apiError", errorMessage |-> msg]

ResultSignals == {"tracksLoaded", "folderContentsLoaded"}

\* tr("TFM server URL is not configured")
NotConfigured == "TFM server URL is not configured"

(***************************************************************************)
(* Initial state: a freshly constructed TFMApiClient                       *)
(***************************************************************************)
ApiInit ==
    /\ m_serverUrl = <<>>
    /\ m_pendingReplies = <<>>
    /\ m_paginatedRequests = <<>>
    /\ network = {}
    /\ nextReply = 1
    /\ emitted = <<>>
    /\ fetches = <<>>
    /\ current = [k \in AllKeys |-> 0]
    /\ handled = <<>>
    /\ seen = <<>>

\* the reply object returned by m_pNetworkManager->get(request), with the
\* properties the caller sets on it; pageSize is the PageSize of the URL and
\* fetch the logical fetch the request belongs to (0: not paginated); origin
\* is history, the public operation that issued the request
NewReply(requestType, channelId, folderId, folderPath, page, pageSize, fetch) ==
    [id |-> nextReply, requestType |-> requestType, channelId |-> channelId,
     folderId |-> folderId, folderPath |-> folderPath, page |-> page,
     pageSize |-> pageSize,
     aborted |-> FALSE, fetch |-> fetch, origin |-> requestType]

\* TFMApiClient::setServerUrl
SetServerUrl(url) ==
    /\ m_serverUrl' = ChopSlashes(url)
    /\ emitted' = <<>>
    /\ handled' = <<>>
    /\ UNCHANGED <<m_pendingReplies, m_paginatedRequests, network, nextReply,
                   fetches, current>>

\* the configuration gate shared by the public fetch operations
RejectUnconfigured ==
    /\ m_serverUrl = <<>>
    /\ emitted' = <<SigApiError(NotConfigured)>>
    /\ handled' = <<>>
    /\ UNCHANGED <<m_serverUrl, m_pendingReplies, m_paginatedRequests, network,
                   nextReply, fetches, current>>

\* a non-paginated request: emit requestStarted, get, set properties, append
SimpleRequestBy(origin, requestType, folderPath, pageSize) ==
    /\ m_serverUrl # <<>>
    /\ nextReply <= MaxReplies
    /\ LET reply == [NewReply(requestType, "", "", folderPath, 0, pageSize, 0)
                        EXCEPT !.origin = origin]
       IN /\ network' = network \cup {reply}
          /\ m_pendingReplies' = Append(m_pendingReplies, reply.id)
    /\ nextReply' = nextReply + 1
    /\ emitted' = <<SigRequestStarted>>
    /\ handled' = <<>>
    /\ UNCHANGED <<m_serverUrl, m_paginatedRequests, fetches, current>>

\* a non-paginated request issued by the operation of the same name
SimpleRequest(requestType, folderPath, pageSize) ==
    SimpleRequestBy(requestType, requestType, folderPath, pageSize)

\* TFMApiClient::fetchChannels, called by the operation `origin`
FetchChannelsBy(origin) ==
    RejectUnconfigured \/ SimpleRequestBy(origin, "fetchChannels", "", 0)

\* TFMApiClient::fetchChannels
FetchChannels == FetchChannelsBy("fetchChannels")

\* TFMApiClient::checkConnection: the gate, then fetchChannels()
CheckConnection ==
    RejectUnconfigured \/ (m_serverUrl # <<>> /\ FetchChannelsBy("checkConnection"))

\* TFMApiClient::fetchFavorites
FetchFavorites == RejectUnconfigured \/ SimpleRequest("fetchFavorites", "", 0)

\* TFMApiClient::fetchLocalFolders
FetchLocalFolders == RejectUnconfigured \/ SimpleRequest("fetchLocalFolders", "", 0)

\* TFMApiClient::fetchLocalTracks
FetchLocalTracks(folderPath) ==
    RejectUnconfigured \/ SimpleRequest("fetchLocalTracks", folderPath, 100)

\* TFMApiClient::searchTracks
SearchTracks(query, limit) ==
    RejectUnconfigured \/ SimpleRequest("searchTracks", "", limit)

(***************************************************************************)
(* Paginated fetches                                                       *)
(***************************************************************************)
\* replies in flight whose response will be accumulated under `key`
InFlightFor(key) == {r \in network : ReplyKey(r) = key}

\* history of a logical fetch that starts now under `key`: the pages it has
\* requested, the item count of each page it has accumulated, whether one of
\* its responses failed, whether its result was emitted, and whether another
\* fetch of the same key was in flight during its lifetime
NewFetch(key) ==
    [key |-> key, reqPages |-> <<1>>, counts |-> <<>>, failed |-> FALSE,
     done |-> FALSE, overlapped |-> InFlightFor(key) # {}]

\* the history after a fetch starts under `key`
StartFetch(key) ==
    Append([f \in 1..Len(fetches) |->
               IF \E r \in InFlightFor(key) : r.fetch = f
               THEN [fetches[f] EXCEPT !.overlapped = TRUE]
               ELSE fetches[f]],
           NewFetch(key))

\* a removal that leaves the entry in the map
MapRemoveKeeps(map, key) == map

\* a removal that spares an entry that holds tracks
MapRemoveEmptyOnly(map, key) ==
    [k \in {q \in DOMAIN map : q # key \/ map[q].accumulatedTracks # <<>>} |-> map[k]]

\* m_paginatedRequests.remove(requestKey)
MapRemove(map, key) == [k \in (DOMAIN map) \ {key} |-> map[k]]

\* m_paginatedRequests[requestKey] = value
MapPut(map, key, value) ==
    [k \in (DOMAIN map) \cup {key} |-> IF k = key THEN value ELSE map[k]]

\* TFMApiClient::fetchChannelTracksPage / fetchFolderContentsPage called for
\* page 1 by the public operation: emit requestStarted, get, append
FirstPage(requestType, channelId, folderId, limit, key) ==
    /\ m_serverUrl # <<>>
    /\ nextReply <= MaxReplies
    /\ m_paginatedRequests' = MapRemove(m_paginatedRequests, key)
    /\ LET reply == NewReply(requestType, channelId, folderId, "", 1, limit,
                             Len(fetches) + 1)
       IN /\ network' = network \cup {reply}
          /\ m_pendingReplies' = Append(m_pendingReplies, reply.id)
    /\ nextReply' = nextReply + 1
    /\ emitted' = <<SigRequestStarted>>
    /\ handled' = <<>>
    /\ fetches' = StartFetch(key)
    /\ current' = [current EXCEPT ![key] = Len(fetches) + 1]
    /\ UNCHANGED m_serverUrl

\* TFMApiClient::fetchChannelTracks
FetchChannelTracks(channelId, limit) ==
    \/ RejectUnconfigured
    \/ FirstPage("fetchChannelTracks", channelId, "", limit, ChannelKey(channelId))

\* TFMApiClient::fetchFolderContents
FetchFolderContents(channelId, folderId, limit) ==
    \/ RejectUnconfigured
    \/ FirstPage("fetchFolderContents", channelId, folderId, limit,
                 FolderKey(channelId, folderId))

\* the pending replies the loop of cancelPendingRequests aborts when abort()
\* emits finished() before it returns: onReplyFinished then removes the reply
\* from m_pendingReplies while the range-based for loop iterates over that
\* list, which invalidates the loop's iterators. The first reply is aborted
\* before any removal and the last one is still found behind the shrunk
\* list; a reply between them is reached or skipped.
AbortedInLoop ==
    IF m_pendingReplies = <<>> THEN {{}}
    ELSE {hit \in SUBSET Range(m_pendingReplies) :
             /\ m_pendingReplies[1] \in hit
             /\ m_pendingReplies[Len(m_pendingReplies)] \in hit}

\* cancelPendingRequests when finished() of an aborted reply is delivered
\* later: no pending reply has finished (a finished reply is removed by
\* onReplyFinished), so each one is aborted, and the list is cleared
CancelDeferred ==
    /\ network' = {IF r.id \in Range(m_pendingReplies)
                   THEN [r EXCEPT !.aborted = TRUE] ELSE r : r \in network}
    /\ m_pendingReplies' = <<>>
    /\ emitted' = <<>>
    /\ handled' = <<>>
    /\ UNCHANGED <<m_serverUrl, m_paginatedRequests, nextReply, fetches, current>>

\* cancelPendingRequests when abort() emits finished() at once: onReplyFinished
\* runs inside the loop for every reply in hit (requestFinished, then apiError
\* with the transport error); the replies the loop skipped stay in flight,
\* not aborted, and the list is cleared
CancelImmediate(hit) ==
    LET ids == SelectSeq(m_pendingReplies, LAMBDA id : id \in hit)
        done == [i \in 1..Len(ids) |-> CHOOSE r \in network : r.id = ids[i]]
    IN /\ hit # {}
       /\ network' = {r \in network : r.id \notin hit}
       /\ m_pendingReplies' = <<>>
       /\ emitted' = Flatten([i \in 1..Len(done) |->
                         <<SigRequestFinished,
                           SigApiError("Network error: Operation canceled")>>])
       /\ handled' = [i \in 1..Len(done) |->
                         [reply |-> done[i], failure |-> "netError"]]
       /\ fetches' = [f \in DOMAIN fetches |->
                         IF \E r \in Range(done) : r.fetch = f
                         THEN [fetches[f] EXCEPT !.failed = TRUE]
                         ELSE fetches[f]]
       /\ UNCHANGED <<m_serverUrl, m_paginatedRequests, nextReply, current>>

\* TFMApiClient::cancelPendingRequests; whether QNetworkReply::abort() emits
\* finished() before it returns is up to the network manager
CancelPendingRequests ==
    \/ CancelDeferred
    \/ \E hit \in AbortedInLoop : CancelImmediate(hit)

(***************************************************************************)
(* TFMApiClient::handleResponse                                            *)
(* The result is a record: the new map, the continuation request (a        *)
(* sequence of at most one [page, pageSize]) and the signals emitted.      *)
(***************************************************************************)
\* the message taken from the envelope alone
EnvelopeErrorNoDefault(resp) ==
    IF resp.error # "" THEN resp.error ELSE resp.message

\* the error message of a success=false envelope
EnvelopeError(resp) ==
    IF resp.error # "" THEN resp.error
    ELSE IF resp.message # "" THEN resp.message
    ELSE "Unknown API error"

\* a branch that keeps the page but never asks for the next one
handlePagedNoContinuation(map, r, resp) ==
    LET tracks == StampTracks(ExtractItems(resp.data), r.channelId)
        pagination == parsePagination(resp.pagination)
        requestKey == ReplyKey(r)
        fresh == [PaginatedRequest EXCEPT
                     !.channelId = r.channelId, !.folderId = r.folderId]
        before == IF requestKey \in DOMAIN map THEN map[requestKey] ELSE fresh
        after == [before EXCEPT
                     !.accumulatedTracks = Accumulate(@, tracks),
                     !.currentPage = pagination.page,
                     !.totalPages = pagination.totalPages]
    IN IF pagination.hasNext
       THEN [map |-> MapPut(map, requestKey, after), next |-> <<>>, sigs |-> <<>>]
       ELSE [map |-> MapRemove(map, requestKey),
             next |-> <<>>,
             sigs |-> <<IF r.requestType = "fetchChannelTracks"
                        THEN [name |-> "tracksLoaded", channelId |-> r.channelId,
                              tracks |-> after.accumulatedTracks, by |-> r.fetch]
                        ELSE [name |-> "folderContentsLoaded",
                              channelId |-> r.channelId, folderId |-> r.folderId,
                              tracks |-> after.accumulatedTracks, by |-> r.fetch]>>]

\* a branch that asks for the next page as long as the page held items
handlePagedWhileItems(map, r, resp) ==
    LET tracks == StampTracks(ExtractItems(resp.data), r.channelId)
        pagination == parsePagination(resp.pagination)
        requestKey == ReplyKey(r)
        fresh == [PaginatedRequest EXCEPT
                     !.channelId = r.channelId, !.folderId = r.folderId]
        before == IF requestKey \in DOMAIN map THEN map[requestKey] ELSE fresh
        after == [before EXCEPT
                     !.accumulatedTracks = Accumulate(@, tracks),
                     !.currentPage = pagination.page,
                     !.totalPages = pagination.totalPages]
    IN IF tracks # <<>>
       THEN [map |-> MapPut(map, requestKey, after),
             next |-> <<[page |-> pagination.page + 1,
                         pageSize |-> pagination.pageSize]>>,
             sigs |-> <<>>]
       ELSE [map |-> MapRemove(map, requestKey),
             next |-> <<>>,
             sigs |-> <<IF r.requestType = "fetchChannelTracks"
                        THEN [name |-> "tracksLoaded", channelId |-> r.channelId,
                              tracks |-> after.accumulatedTracks, by |-> r.fetch]
                        ELSE [name |-> "folderContentsLoaded",
                              channelId |-> r.channelId, folderId |-> r.folderId,
                              tracks |-> after.accumulatedTracks, by |-> r.fetch]>>]

\* the branch for "fetchChannelTracks" and "fetchFolderContents"
handlePaged(map, r, resp) ==
    LET tracks == StampTracks(ExtractItems(resp.data), r.channelId)
        pagination == parsePagination(resp.pagination)
        requestKey == ReplyKey(r)
        fresh == [PaginatedRequest EXCEPT
                     !.channelId = r.channelId, !.folderId = r.folderId]
        before == IF requestKey \in DOMAIN map THEN map[requestKey] ELSE fresh
        after == [before EXCEPT
                     !.accumulatedTracks = Accumulate(@, tracks),
                     !.currentPage = pagination.page,
                     !.totalPages = pagination.totalPages]
    IN IF pagination.hasNext
       THEN [map |-> MapPut(map, requestKey, after),
             next |-> <<[page |-> pagination.page + 1,
                         pageSize |-> pagination.pageSize]>>,
             sigs |-> <<>>]
       ELSE [map |-> MapRemove(map, requestKey),
             next |-> <<>>,
             sigs |-> <<IF r.requestType = "fetchChannelTracks"
                        THEN [name |-> "tracksLoaded", channelId |-> r.channelId,
                              tracks |-> after.accumulatedTracks, by |-> r.fetch]
                        ELSE [name |-> "folderContentsLoaded",
                              channelId |-> r.channelId, folderId |-> r.folderId,
                              tracks |-> after.accumulatedTracks, by |-> r.fetch]>>]

\* the branches for the requests that are not paginated
handleSimple(r, resp) ==
    IF r.requestType = "fetchChannels"
    THEN <<[name |-> "channelsLoaded", count |-> Len(DataToArray(resp.data))]>>
    ELSE IF r.requestType = "fetchFavorites"
    THEN <<[name |-> "favoritesLoaded", count |-> Len(DataToArray(resp.data))]>>
    ELSE IF r.requestType = "fetchLocalFolders"
    THEN <<[name |-> "localFoldersLoaded",
            count |-> Len(SelectSeq(LocalItems(resp.data), LAMBDA e : e.isFolder))]>>
    ELSE IF r.requestType = "fetchLocalTracks"
    THEN <<[name |-> "localTracksLoaded", folderPath |-> r.folderPath,
            count |-> Len(LocalItems(resp.data))]>>
    ELSE IF r.requestType = "searchTracks"
    THEN <<[name |-> "searchResultsReady", count |-> Len(DataToArray(resp.data))]>>
    ELSE <<>>

\* a dispatch that does not look at the success member
handleResponseIgnoresSuccess(map, r, resp) ==
    IF resp.kind = "malformed"
    THEN [map |-> map, next |-> <<>>,
          sigs |-> <<SigApiError("JSON parse error: " \o resp.errorString)>>]
    ELSE IF r.requestType \in PagedTypes
    THEN handlePaged(map, r, resp)
    ELSE [map |-> map, next |-> <<>>, sigs |-> handleSimple(r, resp)]

\* a handler that follows hasNext for every request type
handleResponseFollowsHasNext(map, r, resp) ==
    IF resp.kind = "malformed"
    THEN [map |-> map, next |-> <<>>,
          sigs |-> <<SigApiError("JSON parse error: " \o resp.errorString)>>]
    ELSE IF ~resp.success
    THEN [map |-> map, next |-> <<>>, sigs |-> <<SigApiError(EnvelopeError(resp))>>]
    ELSE IF r.requestType \in PagedTypes
    THEN handlePaged(map, r, resp)
    ELSE LET pagination == parsePagination(resp.pagination)
         IN [map |-> map,
             next |-> IF pagination.hasNext
                      THEN <<[page |-> pagination.page + 1,
                              pageSize |-> pagination.pageSize]>>
                      ELSE <<>>,
             sigs |-> handleSimple(r, resp)]

\* TFMApiClient::handleResponse
handleResponse(map, r, resp) ==
    IF resp.kind = "malformed"
    THEN [map |-> map, next |-> <<>>,
          sigs |-> <<SigApiError("JSON parse error: " \o resp.errorString)>>]
    ELSE IF ~resp.success
    THEN [map |-> map, next |-> <<>>, sigs |-> <<SigApiError(EnvelopeError(resp))>>]
    ELSE IF r.requestType \in PagedTypes
    THEN handlePaged(map, r, resp)
    ELSE [map |-> map, next |-> <<>>, sigs |-> handleSimple(r, resp)]

\* history of fetch r.fetch after the response resp to its reply r
NoteResponse(r, resp, out) ==
    IF r.fetch = 0 THEN fetches
    ELSE IF resp.kind # "json" \/ ~resp.success
    THEN [fetches EXCEPT ![r.fetch].failed = TRUE]
    ELSE [fetches EXCEPT
             ![r.fetch].counts = Append(@, Len(ExtractItems(resp.data))),
             ![r.fetch].reqPages = IF out.next # <<>>
                                   THEN Append(@, out.next[1].page) ELSE @,
             ![r.fetch].done = (out.sigs # <<>>)]

\* a handler after which the finished reply can be delivered once more
OnReplyFinishedTwice(r, resp) ==
    /\ r \in network
    /\ resp \in Responses(r)
    /\ LET out == IF resp.kind = "netError"
                  THEN [map |-> m_paginatedRequests, next |-> <<>>,
                        sigs |-> <<SigApiError("Network error: " \o resp.errorString)>>]
                  ELSE handleResponse(m_paginatedRequests, r, resp)
           pending == RemoveAll(m_pendingReplies, r.id)
       IN /\ out.next # <<>> => nextReply <= MaxReplies
          /\ m_paginatedRequests' = out.map
          /\ fetches' = NoteResponse(r, resp, out)
          /\ IF out.next = <<>>
             THEN /\ network' = network
                  /\ m_pendingReplies' = pending
                  /\ nextReply' = nextReply
                  /\ emitted' = <<SigRequestFinished>> \o out.sigs
             ELSE LET reply == NewReply(r.requestType, r.channelId, r.folderId, "",
                                        out.next[1].page, out.next[1].pageSize,
                                        r.fetch)
                  IN /\ network' = network \cup {reply}
                     /\ m_pendingReplies' = Append(pending, reply.id)
                     /\ nextReply' = nextReply + 1
                     /\ emitted' = <<SigRequestFinished, SigRequestStarted>>
    /\ handled' = <<[reply |-> r,
                     failure |-> IF resp.kind # "json" THEN resp.kind
                                 ELSE IF ~resp.success THEN "envelope"
                                 ELSE "none"]>>
    /\ UNCHANGED <<m_serverUrl, current>>

\* TFMApiClient::onReplyFinished for reply r finishing with resp
OnReplyFinished(r, resp) ==
    /\ r \in network
    /\ resp \in Responses(r)
    /\ LET out == IF resp.kind = "netError"
                  THEN [map |-> m_paginatedRequests, next |-> <<>>,
                        sigs |-> <<SigApiError("Network error: " \o resp.errorString)>>]
                  ELSE handleResponse(m_paginatedRequests, r, resp)
           pending == RemoveAll(m_pendingReplies, r.id)
       IN /\ out.next # <<>> => nextReply <= MaxReplies
          /\ m_paginatedRequests' = out.map
          /\ fetches' = NoteResponse(r, resp, out)
          /\ IF out.next = <<>>
             THEN /\ network' = network \ {r}
                  /\ m_pendingReplies' = pending
                  /\ nextReply' = nextReply
                  /\ emitted' = <<SigRequestFinished>> \o out.sigs
             ELSE LET reply == NewReply(r.requestType, r.channelId, r.folderId, "",
                                        out.next[1].page, out.next[1].pageSize,
                                        r.fetch)
                  IN /\ network' = (network \ {r}) \cup {reply}
                     /\ m_pendingReplies' = Append(pending, reply.id)
                     /\ nextReply' = nextReply + 1
                     /\ emitted' = <<SigRequestFinished, SigRequestStarted>>
    /\ handled' = <<[reply |-> r,
                     failure |-> IF resp.kind # "json" THEN resp.kind
                                 ELSE IF ~resp.success THEN "envelope"
                                 ELSE "none"]>>
    /\ UNCHANGED <<m_serverUrl, current>>

(***************************************************************************)
(* TFMTrackModel: cache probe and synchronous download                     *)
(***************************************************************************)
\* m_cacheDir
CacheDir == <<"/", "c">>

\* the extensions getFileExtension accepts
KnownExtensions ==
    {<<".", "m", "p", "3">>, <<".", "f", "l", "a", "c">>, <<".", "w", "a", "v">>,
     <<".", "o", "g", "g">>, <<".", "m", "4", "a">>, <<".", "a", "a", "c">>,
     <<".", "o", "p", "u", "s">>, <<".", "w", "m", "a">>}

\* QChar::toLower on the upper-case letters the model uses
LowerOf == [c \in {"M", "P", "O", "G", "F", "L", "A", "C"} |->
               CASE c = "M" -> "m" [] c = "P" -> "p" [] c = "O" -> "o"
                 [] c = "G" -> "g" [] c = "F" -> "f" [] c = "L" -> "l"
                 [] c = "A" -> "a" [] c = "C" -> "c"]

\* QString::toLower
ToLower(str) ==
    [i \in 1..Len(str) |-> IF str[i] \in DOMAIN LowerOf THEN LowerOf[str[i]] ELSE str[i]]

\* QString::lastIndexOf(ch): 0-based position of the last ch, -1 when none
LastIndexOf(str, ch) ==
    LET at == {i \in 1..Len(str) : str[i] = ch}
    IN IF at = {} THEN -1 ELSE (CHOOSE i \in at : \A j \in at : j <= i) - 1

\* QString::mid(pos): the rest of the string from 0-based position pos
Mid(str, pos) == SubSeq(str, pos + 1, Len(str))

\* QString::left(n)
Left(str, n) == SubSeq(str, 1, n)

\* QString::replace(before, after) for single characters
ReplaceChar(str, before, after) ==
    [i \in 1..Len(str) |-> IF str[i] = before THEN after ELSE str[i]]

\* QString::endsWith(suffix, Qt::CaseInsensitive)
EndsWithCI(str, suffix) ==
    /\ Len(str) >= Len(suffix)
    /\ ToLower(SubSeq(str, Len(str) - Len(suffix) + 1, Len(str))) = ToLower(suffix)

\* the lower-cased suffix from the last dot on, when the dot is not the first
\* character; empty otherwise
SuffixOf(str) ==
    LET dotPos == LastIndexOf(str, ".")
    IN IF dotPos > 0 THEN ToLower(Mid(str, dotPos)) ELSE <<>>

\* an inference that looks at the URL before the track name
getFileExtensionUrlFirst(trackName, url) ==
    IF SuffixOf(url.path) \in KnownExtensions
    THEN SuffixOf(url.path)
    ELSE IF trackName # <<>> /\ SuffixOf(trackName) \in KnownExtensions
    THEN SuffixOf(trackName)
    ELSE <<".", "m", "p", "3">>

\* TFMTrackModel::getFileExtension; url.path is QUrl(url).path()
getFileExtension(trackName, url) ==
    IF trackName # <<>> /\ SuffixOf(trackName) \in KnownExtensions
    THEN SuffixOf(trackName)
    ELSE IF SuffixOf(url.path) \in KnownExtensions
    THEN SuffixOf(url.path)
    ELSE <<".", "m", "p", "3">>

\* A URL string: its text up to the path, and its path
EmptyUrl == [scheme |-> "", path |-> <<>>]
UrlIsEmpty(url) == url.scheme = "" /\ url.path = <<>>
\* url.startsWith("http")
StartsWithHttp(url) == url.scheme \in {"http://", "https://", "httpx://"}
\* url.startsWith("http://") || url.startsWith("https://")
IsHttpUrl(url) == url.scheme \in {"http://", "https://"}

\* the columns of one row of the track table
ExternalIds == {<<"a", "/", "b">>}
RowIds == {<<"7">>}
Titles == {<<"s", "o", "n", "g">>}
FileUrls == {EmptyUrl, [scheme |-> "https://", path |-> <<"/", "d", "/", "x">>]}
Locations == {EmptyUrl,
              [scheme |-> "http://", path |-> <<"/", "s", "/", "x">>],
              [scheme |-> "httpx://", path |-> <<"/", "s", "/", "x">>]}
ShortLocalPath == <<"/", "m">>
LongLocalPath == <<"/", "m", "/", "a", ".", "m", "p", "3">>
LocalPaths == {ShortLocalPath, LongLocalPath}
ExpectedSizes == {-1, 0, 2000}

Rows == [external_id : ExternalIds, id : RowIds, title : Titles,
         file_url : FileUrls, location : Locations, local_path : LocalPaths,
         file_size : ExpectedSizes]

\* the external_id column, or the id column when it is empty
ExternalIdOf(row) == IF row.external_id = <<>> THEN row.id ELSE row.external_id

\* the identifier with '/', '\' and ':' replaced by '_'
Sanitize(externalId) ==
    ReplaceChar(ReplaceChar(ReplaceChar(externalId, "/", "_"), "\\", "_"), ":", "_")

\* QString localPath = m_cacheDir + "/" + sanitizedId + fileExt, the
\* extension being cut from the identifier when it already ends with it
CachePathOf(externalId, trackName, url) ==
    LET sanitizedId == Sanitize(externalId)
        fileExt == getFileExtension(trackName, url)
        stem == IF EndsWithCI(sanitizedId, fileExt)
                THEN Left(sanitizedId, Len(sanitizedId) - Len(fileExt))
                ELSE sanitizedId
    IN CacheDir \o <<"/">> \o stem \o fileExt

(***************************************************************************)
(* The file system: a function from the paths that exist to their entries  *)
(***************************************************************************)
Exists(d, path) == path \in DOMAIN d
\* QFileInfo(path).isFile()
IsFile(d, path) == Exists(d, path) /\ d[path].isFile
\* a removal that leaves the file where it is
DiskRemoveKeeps(d, path) == d

\* QFile::remove(path)
DiskRemove(d, path) == [q \in (DOMAIN d) \ {path} |-> d[q]]
\* the file at path after a write that left n bytes in it
DiskWrite(d, path, n) ==
    [q \in (DOMAIN d) \cup {path} |->
        IF q = path THEN [size |-> n, isFile |-> TRUE] ELSE d[q]]

VARIABLES
    disk,   \* the file system
    dl,     \* the download getTrack is blocked on in downloadTrackSync, or empty
    ret,    \* history: the last getTrack call that returned, or empty
    prev    \* history: what the getTrack call before that one handed back

dlVars == <<disk, dl, ret, prev>>

\* a lookup that takes the stored local path whatever its length
getTrackLocationAnyLength(d, row) ==
    IF IsFile(d, row.local_path)
    THEN [kind |-> "path", path |-> row.local_path]
    ELSE IF ~UrlIsEmpty(row.file_url) /\ StartsWithHttp(row.file_url)
    THEN [kind |-> "url", url |-> row.file_url]
    ELSE IF ~UrlIsEmpty(row.location) /\ StartsWithHttp(row.location)
    THEN [kind |-> "url", url |-> row.location]
    ELSE [kind |-> "empty"]

\* a lookup that prefers the URLs to the stored local path
getTrackLocationUrlFirst(d, row) ==
    IF ~UrlIsEmpty(row.file_url) /\ StartsWithHttp(row.file_url)
    THEN [kind |-> "url", url |-> row.file_url]
    ELSE IF ~UrlIsEmpty(row.location) /\ StartsWithHttp(row.location)
    THEN [kind |-> "url", url |-> row.location]
    ELSE IF Len(row.local_path) > 5 /\ IsFile(d, row.local_path)
    THEN [kind |-> "path", path |-> row.local_path]
    ELSE [kind |-> "empty"]

\* TFMTrackModel::getTrackLocation; the result is a local path, a URL or empty
getTrackLocation(d, row) ==
    IF Len(row.local_path) > 5 /\ IsFile(d, row.local_path)
    THEN [kind |-> "path", path |-> row.local_path]
    ELSE IF ~UrlIsEmpty(row.file_url) /\ StartsWithHttp(row.file_url)
    THEN [kind |-> "url", url |-> row.file_url]
    ELSE IF ~UrlIsEmpty(row.location) /\ StartsWithHttp(row.location)
    THEN [kind |-> "url", url |-> row.location]
    ELSE [kind |-> "empty"]

\* a probe that looks at the minimum size only
CacheValidSizeOnly(cachedSize, expectedSize) == cachedSize > 1000

\* bool sizeValid = cachedSize > 1000;
\* bool sizeMatches = (expectedSize <= 0) || (cachedSize == expectedSize);
CacheValid(cachedSize, expectedSize) ==
    /\ cachedSize > 1000
    /\ (expectedSize <= 0 \/ cachedSize = expectedSize)

\* the record of a getTrack call that returned: the row, the path handed to
\* getOrAddTrack (ok) or a null TrackPointer, the number of GETs issued, the
\* branch that ended the call, the size of the file the cache probe found
\* (empty when it found none or did not run), the cache path (empty when none
\* was derived), the reply of the download, if any, and whether the call
\* aborted its request
Returned(row, ok, location, gets, why, found, cachePath, reply) ==
    <<[row |-> row, ok |-> ok, location |-> location, gets |-> gets, why |-> why,
       found |-> found, cachePath |-> cachePath, reply |-> reply,
       aborted |-> FALSE]>>

\* what getTrack hands to getOrAddTrack: a file path, or the location as it
\* is when it is no http(s) URL; NoPath when getTrack returns null
NoPath == [kind |-> "none"]
FilePath(path) == [kind |-> "path", path |-> path]

\* TFMTrackModel::getTrack up to the point where it returns or blocks in
\* downloadTrackSync
GetTrack(row) ==
    /\ dl = <<>>
    /\ LET location == getTrackLocation(disk, row)
       IN IF location.kind = "empty"
          THEN /\ ret' = Returned(row, FALSE, NoPath, 0, "noLocation", <<>>, <<>>, <<>>)
               /\ UNCHANGED <<disk, dl>>
          ELSE IF location.kind = "path"
          THEN /\ ret' = Returned(row, TRUE, location, 0, "localPath", <<>>, <<>>, <<>>)
               /\ UNCHANGED <<disk, dl>>
          ELSE IF ~IsHttpUrl(location.url)
          THEN /\ ret' = Returned(row, TRUE, location, 0, "notHttp", <<>>, <<>>, <<>>)
               /\ UNCHANGED <<disk, dl>>
          ELSE LET localPath == CachePathOf(ExternalIdOf(row), row.title, location.url)
                   expectedSize == row.file_size
                   cached == Exists(disk, localPath)
                   hit == cached /\ CacheValid(disk[localPath].size, expectedSize)
                   found == IF cached THEN <<disk[localPath].size>> ELSE <<>>
                   disk1 == IF cached /\ ~hit THEN DiskRemove(disk, localPath) ELSE disk
               IN IF hit
                  THEN /\ ret' = Returned(row, TRUE, FilePath(localPath), 0, "cache", found, localPath, <<>>)
                       /\ UNCHANGED <<disk, dl>>
                  ELSE IF Len(row.local_path) > 5 /\ IsFile(disk1, row.local_path)
                  THEN /\ ret' = Returned(row, TRUE, FilePath(row.local_path), 0, "storedLocalPath",
                                          found, localPath, <<>>)
                       /\ disk' = disk1
                       /\ dl' = dl
                  ELSE /\ dl' = <<[row |-> row, url |-> location.url, destPath |-> localPath,
                                   expectedSize |-> expectedSize, found |-> found,
                                   gets |-> 1]>>
                       /\ disk' = disk1
                       /\ ret' = <<>>


\* const int kDownloadTimeoutMs = 60000
kDownloadTimeoutMs == 60000

\* what the finished reply of the download can carry
ContentTypes == {"audio/mpeg", "Text/HTML; charset=utf-8"}
ContentLengths == {0, 2020}
DataSizes == {0, 3, 1979, 1980, 1999, 2000, 2020}
\* the first four bytes of a body: an ID3 tag, or nothing known
Heads == {<<73, 68, 51, 4>>, <<0, 0, 0, 0>>}
StatusCodes == {200, 404}

\* replies without transport error and with status 200, whatever the body;
\* and replies with a transport error or another status whose body would
\* otherwise be accepted
DownloadReplies ==
    [error : {FALSE}, statusCode : {200}, contentType : ContentTypes,
     contentLength : ContentLengths, size : DataSizes, head : Heads]
    \cup {r \in [error : BOOLEAN, statusCode : StatusCodes,
                 contentType : {"audio/mpeg"}, contentLength : ContentLengths,
                 size : {2000, 2020}, head : {<<73, 68, 51, 4>>}]
           : r.error \/ r.statusCode # 200}

\* what QFile can do with the buffer: open may fail, write may come short by
\* `lost` bytes, the size found on disk afterwards may be off by `skew` bytes
WriteOutcomes ==
    {[open |-> FALSE, lost |-> 0, skew |-> 0],
     [open |-> TRUE, lost |-> 0, skew |-> 0],
     [open |-> TRUE, lost |-> 1, skew |-> 0],
     [open |-> TRUE, lost |-> 0, skew |-> 1]}

\* a test for the exact, lower-case media type
IsHtmlExact(contentType) == contentType = "text/html"

\* contentType.contains("text/html", Qt::CaseInsensitive)
IsHtml(contentType) == contentType \in {"text/html", "Text/HTML; charset=utf-8"}

\* a tolerance test that also rejects a body of exactly 99%
BelowToleranceStrict(size, reference) == size * 100 <= reference * 99

\* data.size() < reference * 0.99, exact for the sizes of the model
BelowTolerance(size, reference) == size * 100 < reference * 99

\* contentLength > 0 && data.size() != contentLength && data.size() < contentLength * 0.99
TruncatedContentLength(reply) ==
    /\ reply.contentLength > 0
    /\ reply.size # reply.contentLength
    /\ BelowTolerance(reply.size, reply.contentLength)

\* expectedSize > 0 && data.size() != expectedSize && data.size() < expectedSize * 0.99
TruncatedApiSize(reply, expectedSize) ==
    /\ expectedSize > 0
    /\ reply.size # expectedSize
    /\ BelowTolerance(reply.size, expectedSize)

\* the sniff of the leading bytes: fLaC, ID3 or MPEG frame sync, OggS, RIFF
validAudio(reply) ==
    /\ reply.size >= 4
    /\ \/ reply.head = <<102, 76, 97, 67>>
       \/ SubSeq(reply.head, 1, 3) = <<73, 68, 51>>
       \/ (reply.head[1] = 255 /\ reply.head[2] >= 224)
       \/ reply.head = <<79, 103, 103, 83>>
       \/ reply.head = <<82, 73, 70, 70>>

\* the checks with a last one that rejects a body the sniff does not know
RejectionSniffs(reply, expectedSize) ==
    IF reply.error THEN "network"
    ELSE IF reply.statusCode # 200 THEN "status"
    ELSE IF IsHtml(reply.contentType) THEN "html"
    ELSE IF reply.size = 0 THEN "empty"
    ELSE IF TruncatedContentLength(reply) THEN "truncatedContentLength"
    ELSE IF TruncatedApiSize(reply, expectedSize) THEN "truncatedApiSize"
    ELSE IF ~validAudio(reply) THEN "sniff"
    ELSE ""

\* the checks without the one of the HTTP status code
RejectionNoStatus(reply, expectedSize) ==
    IF reply.error THEN "network"
    ELSE IF IsHtml(reply.contentType) THEN "html"
    ELSE IF reply.size = 0 THEN "empty"
    ELSE IF TruncatedContentLength(reply) THEN "truncatedContentLength"
    ELSE IF TruncatedApiSize(reply, expectedSize) THEN "truncatedApiSize"
    ELSE ""

\* the check of downloadTrackSync that rejects the finished reply, "" when
\* every check before the write passes
Rejection(reply, expectedSize) ==
    IF reply.error THEN "network"
    ELSE IF reply.statusCode # 200 THEN "status"
    ELSE IF IsHtml(reply.contentType) THEN "html"
    ELSE IF reply.size = 0 THEN "empty"
    ELSE IF TruncatedContentLength(reply) THEN "truncatedContentLength"
    ELSE IF TruncatedApiSize(reply, expectedSize) THEN "truncatedApiSize"
    ELSE ""

\* a failure handling that issues the GET once more before it gives up
DownloadFailedRetry(d, why, reply) ==
    IF dl[1].gets < 2
    THEN /\ dl' = <<[dl[1] EXCEPT !.gets = @ + 1]>>
         /\ disk' = d
         /\ ret' = <<>>
    ELSE /\ ret' = Returned(dl[1].row, FALSE, NoPath, dl[1].gets, why, dl[1].found,
                            dl[1].destPath, reply)
         /\ disk' = d
         /\ dl' = <<>>

\* getTrack returns null after downloadTrackSync returned an empty string
DownloadFailed(d, why, reply) ==
    /\ ret' = Returned(dl[1].row, FALSE, NoPath, dl[1].gets, why, dl[1].found,
                       dl[1].destPath, reply)
    /\ disk' = d
    /\ dl' = <<>>

\* a timeout branch that returns without reply->abort()
TimerFiresNoAbort ==
    /\ dl # <<>>
    /\ DownloadFailed(disk, "timeout", <<>>)

\* the timer fires before the reply finishes (timer.isActive() is false when
\* loop.exec() returns): reply->abort(), return an empty string
TimerFires ==
    /\ dl # <<>>
    /\ ret' = <<[Returned(dl[1].row, FALSE, NoPath, dl[1].gets, "timeout",
                          dl[1].found, dl[1].destPath, <<>>)[1]
                     EXCEPT !.aborted = TRUE]>>
    /\ disk' = disk
    /\ dl' = <<>>

\* the reply finishes first and one of the checks before the write rejects it
ReplyRejected(reply) ==
    /\ dl # <<>>
    /\ Rejection(reply, dl[1].expectedSize) # ""
    /\ DownloadFailed(disk, Rejection(reply, dl[1].expectedSize), <<reply>>)

\* a write that trusts the count QFile::write returns and does not look at
\* the file afterwards
ReplyWrittenUnverified(reply, w) ==
    /\ dl # <<>>
    /\ Rejection(reply, dl[1].expectedSize) = ""
    /\ LET destPath == dl[1].destPath
           written == reply.size - w.lost
           onDisk == written + w.skew
       IN IF ~w.open
          THEN DownloadFailed(disk, "open", <<reply>>)
          ELSE IF written # reply.size
          THEN DownloadFailed(DiskRemove(DiskWrite(disk, destPath, written), destPath),
                              "write", <<reply>>)
          ELSE /\ ret' = Returned(dl[1].row, TRUE, FilePath(destPath), dl[1].gets, "downloaded",
                                  dl[1].found, destPath, <<reply>>)
               /\ disk' = DiskWrite(disk, destPath, onDisk)
               /\ dl' = <<>>

\* the reply finishes first and passes the checks: write the buffer and verify
ReplyWritten(reply, w) ==
    /\ dl # <<>>
    /\ Rejection(reply, dl[1].expectedSize) = ""
    /\ LET destPath == dl[1].destPath
           written == reply.size - w.lost
           onDisk == written + w.skew
       IN IF ~w.open
          THEN DownloadFailed(disk, "open", <<reply>>)
          ELSE IF written # reply.size
          THEN DownloadFailed(DiskRemove(DiskWrite(disk, destPath, written), destPath),
                              "write", <<reply>>)
          ELSE IF onDisk # reply.size
          THEN DownloadFailed(DiskRemove(DiskWrite(disk, destPath, onDisk), destPath),
                              "verify", <<reply>>)
          ELSE /\ ret' = Returned(dl[1].row, TRUE, FilePath(destPath), dl[1].gets, "downloaded",
                                  dl[1].found, destPath, <<reply>>)
               /\ disk' = DiskWrite(disk, destPath, reply.size)
               /\ dl' = <<>>

\* the cache path every row of the model derives
CachePaths ==
    {CachePathOf(ExternalIdOf(row), row.title, u) :
        row \in Rows, u \in (FileUrls \cup Locations) \ {EmptyUrl}}

\* sizes of a file found in the cache directory at start
CachedSizes == {1000, 1001, 2000}

\* the file systems at start: the short local path is a file, the long one a
\* file, a directory or missing, and each cache path holds a file or nothing
InitialDisks ==
    {[q \in {ShortLocalPath} \cup long \cup cached |->
         IF q = ShortLocalPath THEN [size |-> 2000, isFile |-> TRUE]
         ELSE IF q = LongLocalPath THEN [size |-> 2000, isFile |-> longIsFile]
         ELSE [size |-> cachedSize, isFile |-> TRUE]]
     : long \in SUBSET {LongLocalPath}, longIsFile \in BOOLEAN,
       cached \in SUBSET CachePaths, cachedSize \in CachedSizes}

DlInit ==
    /\ disk \in InitialDisks
    /\ dl = <<>>
    /\ ret = <<>>
    /\ prev = <<>>

\* the track model while only the API client is observed
DlIdle ==
    /\ disk = [q \in {ShortLocalPath} |-> [size |-> 2000, isFile |-> TRUE]]
    /\ dl = <<>>
    /\ ret = <<>>
    /\ prev = <<>>

(***************************************************************************)
(* Specifications of the API client                                        *)
(***************************************************************************)
vars == <<apiVars, dlVars, seen>>

Init == ApiInit /\ DlIdle

\* the operations on paginated listings
Next ==
    \/ \E url \in ServerUrls : SetServerUrl(url) /\ UNCHANGED <<dlVars, seen>>
    \/ \E c \in ChannelIds, l \in Limits :
          FetchChannelTracks(c, l) /\ UNCHANGED <<dlVars, seen>>
    \/ \E c \in ChannelIds, f \in FolderIds, l \in Limits :
          FetchFolderContents(c, f, l) /\ UNCHANGED <<dlVars, seen>>
    \/ CancelPendingRequests /\ UNCHANGED <<dlVars, seen>>
    \/ \E r \in network : \E resp \in Responses(r) :
          OnReplyFinished(r, resp) /\ UNCHANGED <<dlVars, seen>>

Spec == Init /\ [][Next]_vars

\* every operation of TFMApiClient, with at most MaxApiReplies requests issued
NextApi ==
    \/ \E url \in ServerUrls : SetServerUrl(url) /\ UNCHANGED <<dlVars, seen>>
    \/ CheckConnection /\ UNCHANGED <<dlVars, seen>> /\ nextReply' <= MaxApiReplies + 1
    \/ FetchChannels /\ UNCHANGED <<dlVars, seen>> /\ nextReply' <= MaxApiReplies + 1
    \/ \E c \in ChannelIds, l \in Limits :
          /\ FetchChannelTracks(c, l) /\ UNCHANGED <<dlVars, seen>>
          /\ nextReply' <= MaxApiReplies + 1
    \/ \E c \in ChannelIds, f \in FolderIds, l \in Limits :
          /\ FetchFolderContents(c, f, l) /\ UNCHANGED <<dlVars, seen>>
          /\ nextReply' <= MaxApiReplies + 1
    \/ FetchFavorites /\ UNCHANGED <<dlVars, seen>> /\ nextReply' <= MaxApiReplies + 1
    \/ FetchLocalFolders /\ UNCHANGED <<dlVars, seen>> /\ nextReply' <= MaxApiReplies + 1
    \/ \E fp \in FolderPaths :
          /\ FetchLocalTracks(fp) /\ UNCHANGED <<dlVars, seen>>
          /\ nextReply' <= MaxApiReplies + 1
    \/ \E q \in Queries, l \in Limits :
          /\ SearchTracks(q, l) /\ UNCHANGED <<dlVars, seen>>
          /\ nextReply' <= MaxApiReplies + 1
    \/ CancelPendingRequests /\ UNCHANGED <<dlVars, seen>>
    \/ \E r \in network : \E resp \in Responses(r) :
          /\ OnReplyFinished(r, resp) /\ UNCHANGED <<dlVars, seen>>
          /\ nextReply' <= MaxApiReplies + 1

SpecApi == Init /\ [][NextApi]_vars

\* the network manager delivers finished() for every reply it created
SpecApiLive ==
    SpecApi /\ WF_vars(\E r \in network : \E resp \in Responses(r) :
                          /\ OnReplyFinished(r, resp) /\ UNCHANGED <<dlVars, seen>>
                          /\ nextReply' <= MaxApiReplies + 1)

\* requests issued while the pages are observed
MaxPageReplies == 2

\* the paginated listings of two channels; the response each finished reply
\* carried is kept until the next operation
NextPages ==
    \/ \E url \in ServerUrls :
          SetServerUrl(url) /\ seen' = <<>> /\ UNCHANGED dlVars
    \/ \E c \in ChannelIds \cup OtherChannelIds, l \in Limits :
          /\ FetchChannelTracks(c, l) /\ seen' = <<>> /\ UNCHANGED dlVars
          /\ nextReply' <= MaxPageReplies + 1
    \/ \E c \in ChannelIds, f \in FolderIds, l \in Limits :
          /\ FetchFolderContents(c, f, l) /\ seen' = <<>> /\ UNCHANGED dlVars
          /\ nextReply' <= MaxPageReplies + 1
    \/ CancelPendingRequests /\ seen' = <<>> /\ UNCHANGED dlVars
    \/ \E r \in network : \E resp \in Responses(r) :
          /\ OnReplyFinished(r, resp) /\ seen' = <<resp>> /\ UNCHANGED dlVars
          /\ nextReply' <= MaxPageReplies + 1

SpecPages == Init /\ [][NextPages]_vars

\* requests issued while the non-paginated listings are observed
MaxSimpleReplies == 2

\* the non-paginated listings; the response each finished reply carried is
\* kept until the next operation
NextSimple ==
    \/ \E url \in ServerUrls :
          SetServerUrl(url) /\ seen' = <<>> /\ UNCHANGED dlVars
    \/ /\ FetchChannels /\ seen' = <<>> /\ UNCHANGED dlVars
       /\ nextReply' <= MaxSimpleReplies + 1
    \/ /\ FetchFavorites /\ seen' = <<>> /\ UNCHANGED dlVars
       /\ nextReply' <= MaxSimpleReplies + 1
    \/ /\ FetchLocalFolders /\ seen' = <<>> /\ UNCHANGED dlVars
       /\ nextReply' <= MaxSimpleReplies + 1
    \/ \E fp \in FolderPaths :
          /\ FetchLocalTracks(fp) /\ seen' = <<>> /\ UNCHANGED dlVars
          /\ nextReply' <= MaxSimpleReplies + 1
    \/ \E q \in Queries, l \in Limits :
          /\ SearchTracks(q, l) /\ seen' = <<>> /\ UNCHANGED dlVars
          /\ nextReply' <= MaxSimpleReplies + 1
    \/ CancelPendingRequests /\ seen' = <<>> /\ UNCHANGED dlVars
    \/ \E r \in network : \E resp \in Responses(r) :
          /\ OnReplyFinished(r, resp) /\ seen' = <<resp>> /\ UNCHANGED dlVars
          /\ nextReply' <= MaxSimpleReplies + 1

SpecSimple == Init /\ [][NextSimple]_vars

(***************************************************************************)
(* Paginated listings against a server that paginates consistently         *)
(***************************************************************************)
\* the answers of a server whose envelopes echo the requested page and report
\* hasNext = true exactly when that page is before the last one; a request
\* may still fail
ConsistentResponses(r) ==
    {resp \in Responses(r) :
        (resp.kind = "json" /\ resp.success)
        => LET pagination == parsePagination(resp.pagination)
           IN /\ pagination.page = r.page
              /\ pagination.hasNext <=> pagination.page < pagination.totalPages}

\* requests issued while the end of the fetches is observed
MaxLiveReplies == 2

\* a finished reply is handled
Answered ==
    \E r \in network : \E resp \in ConsistentResponses(r) :
        /\ OnReplyFinished(r, resp) /\ UNCHANGED <<dlVars, seen>>
        /\ nextReply' <= MaxLiveReplies + 1

NextConsistent ==
    \/ \E url \in ServerUrls : SetServerUrl(url) /\ UNCHANGED <<dlVars, seen>>
    \/ \E c \in ChannelIds, l \in Limits :
          /\ FetchChannelTracks(c, l) /\ UNCHANGED <<dlVars, seen>>
          /\ nextReply' <= MaxLiveReplies + 1
    \/ \E c \in ChannelIds, f \in FolderIds, l \in Limits :
          /\ FetchFolderContents(c, f, l) /\ UNCHANGED <<dlVars, seen>>
          /\ nextReply' <= MaxLiveReplies + 1
    \/ CancelPendingRequests /\ UNCHANGED <<dlVars, seen>>
    \/ Answered

\* every request in flight is answered in the end
SpecConsistentLive == Init /\ [][NextConsistent]_vars /\ WF_vars(Answered)

(***************************************************************************)
(* Specification of the track model                                        *)
(***************************************************************************)
InitDownload == ApiInit /\ DlInit

NextDownload ==
    \/ \E row \in Rows : GetTrack(row) /\ UNCHANGED <<apiVars, prev, seen>>
    \/ TimerFires /\ UNCHANGED <<apiVars, prev, seen>>
    \/ \E reply \in DownloadReplies :
          ReplyRejected(reply) /\ UNCHANGED <<apiVars, prev, seen>>
    \/ \E reply \in DownloadReplies, w \in WriteOutcomes :
          ReplyWritten(reply, w) /\ UNCHANGED <<apiVars, prev, seen>>

SpecDownload == InitDownload /\ [][NextDownload]_vars

\* the single-shot timer started before loop.exec() fires unless the reply
\* finishes first
SpecDownloadLive ==
    SpecDownload /\ WF_vars(TimerFires /\ UNCHANGED <<apiVars, prev, seen>>)

\* what the caller of getTrack holds after the call: the track of a path, or
\* a null TrackPointer; the branch that ended the call is kept beside it
Outcome(c) == [value |-> c.location, why |-> c.why]

\* the call before the last one is remembered when the next call starts
Remember == prev' = IF ret # <<>> THEN <<Outcome(ret[1])>> ELSE prev

\* successive getTrack calls on an empty cache, the outcome of the call before
\* the last one remembered
InitCalls == ApiInit /\ DlIdle

NextCalls ==
    \/ \E row \in Rows : GetTrack(row) /\ UNCHANGED <<apiVars, seen>> /\ Remember
    \/ TimerFires /\ UNCHANGED <<apiVars, seen>> /\ Remember
    \/ \E reply \in DownloadReplies :
          ReplyRejected(reply) /\ UNCHANGED <<apiVars, seen>> /\ Remember
    \/ \E reply \in DownloadReplies, w \in WriteOutcomes :
          ReplyWritten(reply, w) /\ UNCHANGED <<apiVars, seen>> /\ Remember

SpecCalls == InitCalls /\ [][NextCalls]_vars

(***************************************************************************)
(* Specification of the cache path derivation                              *)
(***************************************************************************)
\* identifiers: plain, ending with an extension, and with a separator
PathIds == {<<"a">>, <<"a", ".", "m", "p", "3">>, <<"a", "/", "b">>, <<"a", ":", "b">>}
\* track names: without suffix, with an upper-case audio suffix, and a bare
\* suffix
PathTitles == {<<"s", "o", "n", "g">>, <<"s", ".", "O", "G", "G">>,
               <<".", "o", "g", "g">>}
\* download URLs whose path has no suffix or an audio suffix
PathUrls == {[scheme |-> "https://", path |-> <<"/", "d", "/", "x">>],
             [scheme |-> "https://",
              path |-> <<"/", "d", "/", "x", ".", "w", "a", "v">>]}

\* rows that differ in what the cache path is derived from
PathRows == [external_id : PathIds, id : RowIds, title : PathTitles,
             file_url : PathUrls, location : {EmptyUrl},
             local_path : {ShortLocalPath}, file_size : {-1}]

\* one body that is accepted and one that is rejected
PathReplies ==
    [error : {FALSE}, statusCode : {200}, contentType : {"audio/mpeg"},
     contentLength : {0}, size : {0, 2000}, head : {<<73, 68, 51, 4>>}]

\* files in the cache directory while the derivation is observed
MaxCached == 2

\* getTrack over rows with various identifiers, names and URLs, on a cache
\* that starts empty
NextPaths ==
    \/ \E row \in PathRows : GetTrack(row) /\ UNCHANGED <<apiVars, prev, seen>>
    \/ TimerFires /\ UNCHANGED <<apiVars, prev, seen>>
    \/ \E reply \in PathReplies :
          ReplyRejected(reply) /\ UNCHANGED <<apiVars, prev, seen>>
    \/ \E reply \in PathReplies, w \in WriteOutcomes :
          /\ ReplyWritten(reply, w) /\ UNCHANGED <<apiVars, prev, seen>>
          /\ Cardinality(DOMAIN disk') <= MaxCached + 1

SpecPaths == InitCalls /\ [][NextPaths]_vars

(***************************************************************************)
(* Properties of the page aggregation                                      *)
(***************************************************************************)
\* the collection results among the signals of the last operation
Results == {s \in Range(emitted) : s.name \in ResultSignals}

\* the key a collection result is emitted for
ResultKey(s) ==
    IF s.name = "tracksLoaded" THEN ChannelKey(s.channelId)
    ELSE FolderKey(s.channelId, s.folderId)

\* the logical fetch whose request delivered track t
FetchOf(t) == t.id[1]

\* the pages 1..N of fetch f, each in its array order, stamped like the code does
PagesInOrder(f, channelId) ==
    Flatten([p \in 1..Len(fetches[f].counts) |->
                StampTracks(JsonItems(f, p, fetches[f].counts[p]), channelId)])

\* fetch f requested exactly the pages 1, 2, ..., N and no other fetch of its
\* key was in flight while it ran
RanAlone(f) ==
    /\ ~fetches[f].overlapped
    /\ fetches[f].reqPages = [p \in 1..Len(fetches[f].reqPages) |-> p]

\* C1 (aggregation completeness): when a logical fetch that ran alone on its
\* key has requested the pages 1..N, all of them succeeded and page N reported
\* hasNext=false, the sequence emitted for it is page 1's items followed by
\* page 2's ... page N's, each page in array order, nothing duplicated,
\* dropped or re-ordered.
AggregationCompleteness ==
    \A s \in Results :
        RanAlone(s.by) =>
            /\ Len(fetches[s.by].counts) = Len(fetches[s.by].reqPages)
            /\ s.tracks = PagesInOrder(s.by, s.channelId)

\* a fetch that ran alone emitted a result built from two or more non-empty pages
AggregationCompletenessWitness ==
    \E s \in Results :
        /\ RanAlone(s.by)
        /\ Len(fetches[s.by].reqPages) >= 2
        /\ \A p \in 1..Len(fetches[s.by].counts) : fetches[s.by].counts[p] >= 1
        /\ Len(s.tracks) >= 2

\* C2 (aggregation reset): every result emitted for a key contains only
\* entries delivered to the fetch most recently started under that key.
AggregationReset ==
    \A s \in Results :
        \A t \in Range(s.tracks) : FetchOf(t) = current[ResultKey(s)]

\* C3 (envelope failure abort): no emitted sequence contains an entry that was
\* accumulated by a fetch one of whose page responses failed.
EnvelopeFailureAbort ==
    \A s \in Results :
        \A t \in Range(s.tracks) : ~fetches[FetchOf(t)].failed

\* C4 (failure discards state): right after a page response with success=false
\* or a malformed payload was processed, the key has no entry in
\* m_paginatedRequests.
FailureDiscardsState ==
    \A h \in Range(handled) :
        (h.reply.requestType \in PagedTypes /\ h.failure \in {"malformed", "envelope"})
            => ReplyKey(h.reply) \notin DOMAIN m_paginatedRequests

\* reply r belongs to a fetch that was superseded under its key or cancelled
Stale(r) ==
    /\ r.requestType \in PagedTypes
    /\ (r.fetch # current[ReplyKey(r)] \/ r.aborted)

\* C5 (stale-continuation guard): processing the response of a superseded or
\* cancelled fetch leaves m_paginatedRequests unchanged, issues no request and
\* emits no result.
StaleContinuationGuard ==
    [][\A h \in Range(handled') :
          Stale(h.reply) =>
              /\ m_paginatedRequests' = m_paginatedRequests
              /\ nextReply' = nextReply
              /\ \A s \in Range(emitted') : s.name \notin ResultSignals]_vars

\* C9 (configuration gate): while the server URL is empty no operation, page
\* continuations included, issues a network request.
ConfigurationGate ==
    [][m_serverUrl = <<>> => nextReply' = nextReply]_vars

(***************************************************************************)
(* Properties of the cache probe and the download                          *)
(***************************************************************************)
\* the remote URL of a row: the download URL, else the stream URL
RowUrl(row) ==
    IF ~UrlIsEmpty(row.file_url) /\ StartsWithHttp(row.file_url) THEN row.file_url
    ELSE row.location

\* the cache path derived for a row
RowCachePath(row) == CachePathOf(ExternalIdOf(row), row.title, RowUrl(row))

\* the stored local path of a row is longer than 5 characters and a regular file
UsableLocalPath(d, row) == Len(row.local_path) > 5 /\ IsFile(d, row.local_path)

\* the reuse rule as the specification words it
Reusable(size, expectedSize) ==
    size > 1000 /\ (expectedSize <= 0 \/ size = expectedSize)

\* C6 (cache reuse law): when the cache probe of getTrack finds a file at the
\* derived cache path, the call returns that file without a request iff
\* size > 1000 and (expectedSize <= 0 or size = expectedSize); otherwise the
\* file is deleted before anything else happens, so the path is absent while
\* the download is awaited and after a call that did not write a new file.
CacheReuseLaw ==
    /\ \A c \in Range(ret) :
          c.found # <<>> =>
              IF Reusable(c.found[1], c.row.file_size)
              THEN /\ c.ok /\ c.gets = 0
                   /\ c.location = FilePath(c.cachePath)
                   /\ Exists(disk, c.cachePath)
                   /\ disk[c.cachePath].size = c.found[1]
              ELSE /\ c.why # "cache"
                   /\ (c.why # "downloaded" => ~Exists(disk, c.cachePath))
    /\ \A w \in Range(dl) :
          /\ ~Exists(disk, w.destPath)
          /\ w.found # <<>> => ~Reusable(w.found[1], w.expectedSize)

\* a cached file big enough but of another size than expected was found and
\* deleted, and the call failed without writing a file
CacheReuseLawWitness ==
    \E c \in Range(ret) :
        /\ c.found # <<>>
        /\ c.found[1] > 1000
        /\ c.row.file_size > 0
        /\ c.found[1] # c.row.file_size
        /\ ~c.ok
        /\ ~Exists(disk, c.cachePath)

\* a valid cache file exists at the cache path derived for row
ValidCacheFile(d, row) ==
    /\ Exists(d, RowCachePath(row))
    /\ Reusable(d[RowCachePath(row)].size, row.file_size)

ReferenceSizes(c) ==
    {n \in {c.reply[1].contentLength, c.row.file_size} : n > 0}

\* the reply reached the integrity check: no error, status 200, no HTML, a body
ReachedIntegrityCheck(c) ==
    /\ c.reply # <<>>
    /\ ~c.reply[1].error
    /\ c.reply[1].statusCode = 200
    /\ ~IsHtml(c.reply[1].contentType)
    /\ c.reply[1].size > 0

\* C8 (download tolerance): a non-empty HTTP 200 download whose byte count is
\* at least 99% of every known reference size passes the integrity check; one
\* below 99% of a known reference size fails as truncated and leaves no file.
DownloadTolerance ==
    \A c \in Range(ret) :
        ReachedIntegrityCheck(c) =>
            IF \A n \in ReferenceSizes(c) : c.reply[1].size * 100 >= n * 99
            THEN c.why \in {"downloaded", "open", "write", "verify"}
            ELSE /\ ~c.ok
                 /\ c.why \in {"truncatedContentLength", "truncatedApiSize"}
                 /\ ~Exists(disk, c.cachePath)

\* a body of exactly 99% of the expected size was accepted and written
DownloadToleranceWitness ==
    \E c \in Range(ret) :
        /\ ReachedIntegrityCheck(c)
        /\ c.row.file_size > 0
        /\ c.reply[1].size * 100 = c.row.file_size * 99
        /\ c.why = "downloaded"
        /\ Exists(disk, c.cachePath)
        /\ disk[c.cachePath].size = c.reply[1].size

\* C10 (HTTP error scenario): when the download of a row with no cache file
\* and no usable local path is answered with a status other than 200, getTrack
\* returns null, the failure being the status check (or the transport error
\* check when the reply also carries an error), and no file is at the cache path.
HttpErrorFails ==
    \A c \in Range(ret) :
        (c.reply # <<>> /\ c.reply[1].statusCode # 200) =>
            /\ ~c.ok
            /\ c.location = NoPath
            /\ c.gets = 1
            /\ c.why = (IF c.reply[1].error THEN "network" ELSE "status")
            /\ ~Exists(disk, c.cachePath)

\* a download answered 404 without transport error failed on the status check
HttpErrorFailsWitness ==
    \E c \in Range(ret) :
        /\ c.reply # <<>>
        /\ c.reply[1].statusCode = 404
        /\ ~c.reply[1].error
        /\ c.why = "status"
        /\ ~c.ok
        /\ ~Exists(disk, c.cachePath)

(***************************************************************************)
(* Errors of the API client                                                *)
(***************************************************************************)
\* the apiError signals of the last step
ApiErrors == {s \in Range(emitted) : s.name = "apiError"}

\* C17 - Every apiError signal (configuration error, transport error, JSON
\* parse error, success=false envelope with or without error and message)
\* carries a non-empty message.
ErrorsCarryMessage == \A s \in ApiErrors : s.errorMessage # ""

\* the reply just handled was a success=false envelope with neither an error
\* nor a message, and an apiError was emitted for it
ErrorsCarryMessageWitness ==
    /\ handled # <<>> /\ handled[1].failure = "envelope"
    /\ \E s \in ApiErrors : s.errorMessage = "Unknown API error"

\* C18 - Connection check completion: once the reply to the request of a
\* checkConnection call has been handled, a connectionChecked signal is
\* eventually emitted.
ConnectionCheckCompletes ==
    (handled # <<>> /\ handled[1].reply.origin = "checkConnection")
    ~> (\E s \in Range(emitted) : s.name = "connectionChecked")

(***************************************************************************)
(* Isolation of the keys                                                   *)
(***************************************************************************)
\* the AggregationState of key k, or nothing
EntryOf(map, k) == IF k \in DOMAIN map THEN <<map[k]>> ELSE <<>>

\* the keys of the step: the key a fetch is started under, or the keys of the
\* fetches whose replies are handled
StepKeys ==
    IF Len(fetches') > Len(fetches) THEN {fetches'[Len(fetches')].key}
    ELSE {fetches[h.reply.fetch].key :
             h \in {x \in Range(handled') : x.reply.fetch # 0}}

\* every entry of every result emitted for a key was delivered to a fetch of
\* that key
OwnEntriesOnly ==
    \A s \in Results : \A i \in 1..Len(s.tracks) :
        fetches[FetchOf(s.tracks[i])].key = ResultKey(s)

\* C13 - Key isolation: a step on key A (a page completion, a failure, a
\* start or restart of A's fetch) leaves the AggregationState of every other
\* key unchanged; a result emitted for a key holds only entries delivered to
\* fetches of that key, and when no other fetch of that same key was in flight
\* it is the concatenation of that fetch's own pages, whatever happened on
\* other keys in between.
KeyIsolation ==
    /\ [](OwnEntriesOnly /\ AggregationCompleteness)
    /\ [][\A k \in AllKeys :
             k \notin StepKeys =>
                 EntryOf(m_paginatedRequests', k) = EntryOf(m_paginatedRequests, k)]_vars

\* a reply of one key has just been handled while another key holds
\* accumulated entries
KeyIsolationWitness ==
    /\ handled # <<>>
    /\ \E k \in DOMAIN m_paginatedRequests :
          /\ k # ReplyKey(handled[1].reply)
          /\ Len(m_paginatedRequests[k].accumulatedTracks) >= 1

(***************************************************************************)
(* Start and progress of a paginated fetch                                 *)
(***************************************************************************)
\* the step starts a logical fetch (fetchChannelTracks / fetchFolderContents
\* passed the URL check)
FetchStarts == Len(fetches') > Len(fetches)

\* the key of the fetch the step starts
StartedKey == fetches'[Len(fetches')].key

\* C19 - Restart discards old state: when fetchChannelTracks or
\* fetchFolderContents starts a fetch for a key that has a live
\* AggregationState, the key has no state right after the call and a request
\* for page 1 of that key has been issued and is pending.
RestartDiscardsOldState ==
    [][(FetchStarts /\ StartedKey \in DOMAIN m_paginatedRequests)
       => /\ StartedKey \notin DOMAIN m_paginatedRequests'
          /\ \E r \in network' \ network :
                /\ r.fetch = Len(fetches') /\ r.page = 1
                /\ ReplyKey(r) = StartedKey
                /\ r.id \in Range(m_pendingReplies')]_vars

\* a fetch has just been started for a key whose earlier fetch had accumulated
\* a page and was waiting for the next one
RestartDiscardsOldStateWitness ==
    /\ emitted = <<SigRequestStarted>> /\ handled = <<>>
    /\ Len(fetches) >= 2
    /\ fetches[Len(fetches)].reqPages = <<1>> /\ fetches[Len(fetches)].counts = <<>>
    /\ \E f \in 1..(Len(fetches) - 1) :
          /\ fetches[f].key = fetches[Len(fetches)].key
          /\ Len(fetches[f].counts) = 1 /\ fetches[f].counts[1] = 1
          /\ Len(fetches[f].reqPages) = 2
          /\ ~fetches[f].done /\ ~fetches[f].failed
    /\ fetches[Len(fetches)].key \notin DOMAIN m_paginatedRequests

\* C20 - Page progression: when the reply to the request for page p of a
\* paginated fetch is handled as a success with hasNext=true, the request
\* issued in that step asks for page p+1, whatever page the envelope reports
\* or omits.
PageProgression ==
    [][(handled' # <<>> /\ handled'[1].failure = "none")
       => \A r \in network' \ network : r.page = handled'[1].reply.page + 1]_vars

\* C21 - State lifetime on success: the states are kept one per key, each
\* under the key of its own channel and folder, and in the step that emits
\* the result for a key no AggregationState remains for that key.
StateLifetime ==
    /\ \A k \in DOMAIN m_paginatedRequests :
          /\ k \in AllKeys
          /\ k \in {ChannelKey(m_paginatedRequests[k].channelId),
                    FolderKey(m_paginatedRequests[k].channelId,
                              m_paginatedRequests[k].folderId)}
    /\ \A s \in Results : ResultKey(s) \notin DOMAIN m_paginatedRequests

\* a result built from a state that lived across two pages has been emitted
StateLifetimeWitness ==
    \E s \in Results :
        /\ Len(fetches[s.by].counts) = 2
        /\ Len(s.tracks) >= 1
        /\ ResultKey(s) \notin DOMAIN m_paginatedRequests

\* the apiError signals among the signals of the step
ErrorsIn(sigs) == SelectSeq(sigs, LAMBDA s : s.name = "apiError")

\* C22 - Immediate abort: the step that handles a failed page response
\* (transport error, malformed JSON, success=false) of a paginated fetch
\* surfaces exactly one error for it and issues no request, and a fetch that
\* has failed has no request in flight. (cancelPendingRequests may handle
\* several aborted replies in one step: one error each.)
ImmediateAbort ==
    /\ [](\A r \in network : r.fetch # 0 => ~fetches[r.fetch].failed)
    /\ [][(/\ handled' # <<>>
            /\ handled'[1].failure # "none"
            /\ handled'[1].reply.fetch # 0)
           => /\ Len(ErrorsIn(emitted')) = Len(handled')
              /\ network' \subseteq network
              /\ nextReply' = nextReply]_vars

\* the response to the second page of a fetch has just failed
ImmediateAbortWitness ==
    /\ handled # <<>>
    /\ handled[1].failure \in {"malformed", "envelope"}
    /\ handled[1].reply.fetch # 0
    /\ Len(fetches[handled[1].reply.fetch].reqPages) = 2
    /\ fetches[handled[1].reply.fetch].failed

\* the requests of logical fetch f that are in flight
Outstanding(f) == {r \in network : r.fetch = f}

\* C23 - Sequential paging: a logical fetch never has more than one page
\* request outstanding, and a request for a page after the first is issued
\* only in the step that handles a successful response of the same fetch.
SequentialPaging ==
    /\ [](\A f \in 1..Len(fetches) : Cardinality(Outstanding(f)) <= 1)
    /\ [][\A r \in network' :
             (r.id >= nextReply /\ r.fetch # 0 /\ ~FetchStarts)
             => /\ handled' # <<>>
                /\ handled'[1].failure = "none"
                /\ handled'[1].reply.fetch = r.fetch
                /\ handled'[1].reply \in network]_vars

\* the second page of a fetch is the one request the fetch has outstanding
SequentialPagingWitness ==
    \E f \in 1..Len(fetches) :
        /\ Len(fetches[f].reqPages) = 2
        /\ Len(fetches[f].counts) = 1
        /\ Cardinality(Outstanding(f)) = 1

(***************************************************************************)
(* The pages of a paginated fetch                                          *)
(***************************************************************************)
\* the last operation handled a successful page response of a paginated fetch
PageSeen ==
    /\ seen # <<>>
    /\ handled # <<>>
    /\ handled[1].reply.requestType \in PagedTypes
    /\ seen[1].kind = "json"
    /\ seen[1].success

\* the envelope has no pagination object, or one without hasNext
LacksHasNext(resp) ==
    resp.pagination = Absent \/ resp.pagination[1].hasNext = Absent

\* what the key of reply r has accumulated
Accumulated(r) ==
    IF ReplyKey(r) \in DOMAIN m_paginatedRequests
    THEN m_paginatedRequests[ReplyKey(r)].accumulatedTracks
    ELSE <<>>

\* C24 - Pagination defaults: a successful page response without a pagination
\* object, or with one that lacks hasNext, is the last page: no request is
\* issued, the key keeps no state, and one result is emitted that holds what
\* the key had accumulated followed by the entries of this page; without a
\* pagination object the page is 1, the page size 100, the total 1.
PaginationDefaults ==
    [][(PageSeen' /\ LacksHasNext(seen'[1]))
       => LET r == handled'[1].reply
              resp == seen'[1]
          IN /\ nextReply' = nextReply
             /\ network' = network \ {r}
             /\ ReplyKey(r) \notin DOMAIN m_paginatedRequests'
             /\ Cardinality(Results') = 1
             /\ \A s \in Results' :
                   /\ ResultKey(s) = ReplyKey(r)
                   /\ s.tracks = Accumulated(r)
                                  \o StampTracks(ExtractItems(resp.data), r.channelId)
             /\ ~parsePagination(resp.pagination).hasNext
             /\ resp.pagination = Absent
                  => LET info == parsePagination(resp.pagination)
                     IN info.page = 1 /\ info.pageSize = 100 /\ info.totalPages = 1]_vars

\* the second page of a fetch came without a pagination object and the result
\* holds both pages
PaginationDefaultsWitness ==
    /\ PageSeen
    /\ seen[1].pagination = Absent
    /\ handled[1].reply.page = 2
    /\ \E s \in Results : Len(s.tracks) = 2

\* the item array a response carries, directly under data or under data.items
ItemArray(data) ==
    IF data.type = "array" THEN data.arr
    ELSE IF data.type = "object" THEN data.items
    ELSE <<>>

\* the same response with its item array moved to the other place
Reshaped(resp) ==
    [resp EXCEPT !.data = IF @.type = "array"
                          THEN [type |-> "object", hasItems |-> TRUE, items |-> @.arr]
                          ELSE [type |-> "array", arr |-> @.items]]

\* the response carries an item array in one of the two places
HasItemArray(resp) ==
    \/ resp.data.type = "array"
    \/ resp.data.type = "object" /\ resp.data.hasItems

\* what the key of the handled reply holds after the page: the state kept
\* for the next page, or the sequence emitted when the page was the last
Contribution ==
    LET key == ReplyKey(handled[1].reply)
    IN IF key \in DOMAIN m_paginatedRequests
       THEN {m_paginatedRequests[key].accumulatedTracks}
       ELSE {s.tracks : s \in Results}

\* C25 - Shape transparency: a page of a paginated fetch adds to the
\* accumulation the entries of its item array, in the array's order, whether
\* the array is the data member or data.items; the handler computes the same
\* state, continuation and signals for both places.
ShapeTransparency ==
    /\ [][(PageSeen' /\ HasItemArray(seen'[1]))
           => LET r == handled'[1].reply
                  resp == seen'[1]
              IN /\ Contribution' =
                       {Accumulated(r)
                          \o StampTracks(ItemArray(resp.data), r.channelId)}
                 /\ handlePaged(m_paginatedRequests, r, resp)
                      = handlePaged(m_paginatedRequests, r, Reshaped(resp))]_vars
    /\ [](\A r \in network : \A resp \in Responses(r) :
             (r.requestType \in PagedTypes /\ resp.kind = "json"
                /\ resp.success /\ HasItemArray(resp))
             => /\ Reshaped(resp) \in Responses(r)
                /\ handlePaged(m_paginatedRequests, r, resp)
                     = handlePaged(m_paginatedRequests, r, Reshaped(resp)))

\* a second page delivered its entry under data.items and the entry follows
\* the entry of the first page
ShapeTransparencyWitness ==
    /\ PageSeen
    /\ seen[1].data.type = "object"
    /\ seen[1].data.hasItems
    /\ Len(seen[1].data.items) = 1
    /\ handled[1].reply.page = 2
    /\ \E s \in Results :
          /\ Len(s.tracks) = 2
          /\ s.tracks[2].id = seen[1].data.items[1].id

\* the keys under which a request for channel c accumulates
KeysOfChannel(c) == {ChannelKey(c)} \cup {FolderKey(c, f) : f \in FolderIds}

\* C26 - Context tagging: every entry of a sequence emitted by
\* fetchChannelTracks or fetchFolderContents carries the channel id of the
\* request whose response delivered it, and that is the channel id reported
\* with the result.
ContextTagging ==
    [](\A s \in Results : \A i \in 1..Len(s.tracks) :
          LET t == s.tracks[i]
          IN /\ t.channelId = s.channelId
             /\ fetches[FetchOf(t)].key \in KeysOfChannel(t.channelId)
             /\ FetchOf(t) = handled[1].reply.fetch
                  => t.channelId = handled[1].reply.channelId)

\* a listing of the second channel is emitted while a request for the first
\* channel is pending
ContextTaggingWitness ==
    \E s \in Results :
        /\ s.channelId \in OtherChannelIds
        /\ Len(s.tracks) = 1
        /\ \E r \in network : r.channelId \in ChannelIds

(***************************************************************************)
(* The listings that are not paginated                                     *)
(***************************************************************************)
SimpleTypes == {"fetchChannels", "fetchFavorites", "fetchLocalFolders",
                "fetchLocalTracks", "searchTracks"}

\* the signal that carries the result of a non-paginated request
SimpleResult(requestType) ==
    CASE requestType = "fetchChannels" -> "channelsLoaded"
      [] requestType = "fetchFavorites" -> "favoritesLoaded"
      [] requestType = "fetchLocalFolders" -> "localFoldersLoaded"
      [] requestType = "fetchLocalTracks" -> "localTracksLoaded"
      [] requestType = "searchTracks" -> "searchResultsReady"

\* the last operation handled a successful response of a non-paginated request
SimpleSeen ==
    /\ seen # <<>>
    /\ handled # <<>>
    /\ handled[1].reply.requestType \in SimpleTypes
    /\ seen[1].kind = "json"
    /\ seen[1].success

\* C27 - Degenerate non-paginated calls: a request of fetchChannels,
\* fetchFavorites, fetchLocalFolders, fetchLocalTracks or searchTracks is issued
\* by the call itself, one per call, never by the handling of a response; a
\* successful response emits requestFinished and exactly one signal, the result
\* of that request type, leaves m_paginatedRequests as it was and issues no
\* request, whatever hasNext the envelope reports.
DegenerateCalls ==
    /\ [][\A r \in network' :
             (r.id >= nextReply /\ r.requestType \in SimpleTypes)
             => /\ handled' = <<>>
                /\ nextReply' = nextReply + 1
                /\ network' = network \cup {r}
                /\ r.fetch = 0
                /\ m_paginatedRequests' = m_paginatedRequests]_vars
    /\ [][SimpleSeen'
           => /\ Len(emitted') = 2
              /\ emitted'[1] = SigRequestFinished
              /\ emitted'[2].name = SimpleResult(handled'[1].reply.requestType)
              /\ m_paginatedRequests' = m_paginatedRequests
              /\ nextReply' = nextReply
              /\ network' = network \ {handled'[1].reply}]_vars

\* a search response that reports hasNext=true produced its one result and
\* nothing is in flight
DegenerateCallsWitness ==
    /\ SimpleSeen
    /\ handled[1].reply.requestType = "searchTracks"
    /\ seen[1].pagination # Absent
    /\ seen[1].pagination[1].hasNext = Some(TRUE)
    /\ emitted[2].name = "searchResultsReady"
    /\ network = {}

(***************************************************************************)
(* Errors of the download                                                  *)
(***************************************************************************)
\* the error kind the contract names for the branch that failed a download
ErrorKind(why) ==
    CASE why = "timeout" -> "Timeout"
      [] why = "status" -> "HttpError"
      [] why = "html" -> "UnexpectedContentType"
      [] why \in {"truncatedContentLength", "truncatedApiSize"} -> "TruncatedDownload"
      [] why \in {"write", "verify"} -> "WriteError"
      [] OTHER -> ""

\* C11 - Typed errors: two getTrack calls whose downloads fail with different
\* error kinds (Timeout, HttpError, UnexpectedContentType, TruncatedDownload,
\* WriteError) hand different values back to the caller.
TypedErrors ==
    (/\ prev # <<>> /\ ret # <<>>
     /\ ~ret[1].ok
     /\ ErrorKind(prev[1].why) # "" /\ ErrorKind(ret[1].why) # ""
     /\ ErrorKind(prev[1].why) # ErrorKind(ret[1].why))
    => prev[1].value # Outcome(ret[1]).value

\* C12 - All-or-nothing download: after a getTrack call that derived a cache
\* path and failed, no file exists at that cache path.
AllOrNothingDownload ==
    (ret # <<>> /\ ~ret[1].ok /\ ret[1].cachePath # <<>>)
    => ~Exists(disk, ret[1].cachePath)

\* a call that found an invalid file at its cache path and whose download
\* failed after the buffer went to the file
AllOrNothingDownloadWitness ==
    /\ ret # <<>> /\ ~ret[1].ok
    /\ ret[1].found # <<>>
    /\ ret[1].why \in {"write", "verify"}

\* C14 - No internal retry: a getTrack call issues at most one GET, whether
\* the call is still waiting for the reply or has returned, with success or
\* with any failure.
NoInternalRetry ==
    /\ dl # <<>> => dl[1].gets <= 1
    /\ ret # <<>> => ret[1].gets <= 1

\* a call whose only GET ended with a transport error has returned
NoInternalRetryWitness ==
    /\ ret # <<>> /\ ~ret[1].ok
    /\ ret[1].why = "network"
    /\ ret[1].gets = 1

\* C15 - Bounded, fail-closed download wait: a call that waits for its
\* download returns (the reply finishes or the timer fires); when the timer
\* fires first the request is aborted, the call fails and the disk is left as
\* it was.
BoundedDownloadWait ==
    /\ (dl # <<>>) ~> (dl = <<>> /\ ret # <<>>)
    /\ [][(dl # <<>> /\ ret' # <<>> /\ ret'[1].why = "timeout")
            => /\ ret'[1].aborted
               /\ ~ret'[1].ok /\ ret'[1].location = NoPath
               /\ disk' = disk
               /\ dl' = <<>>]_vars

\* a call has returned because the timer fired
BoundedDownloadWaitWitness ==
    /\ ret # <<>>
    /\ ret[1].why = "timeout" /\ ret[1].aborted
    /\ dl = <<>>

\* C16 - HTML guard: when the download reply has no transport error, status
\* 200 and an HTML content type, the call fails and the disk is left as it
\* was, whatever the size of the body.
HtmlGuard ==
    [][(/\ dl # <<>> /\ ret' # <<>> /\ ret'[1].reply # <<>>
        /\ ~ret'[1].reply[1].error
        /\ ret'[1].reply[1].statusCode = 200
        /\ ret'[1].reply[1].contentType = "Text/HTML; charset=utf-8")
       => /\ ~ret'[1].ok /\ ret'[1].location = NoPath
          /\ disk' = disk]_vars

\* a call failed on an HTML reply whose body would pass every other check
HtmlGuardWitness ==
    /\ ret # <<>> /\ ~ret[1].ok /\ ret[1].reply # <<>>
    /\ ~ret[1].reply[1].error
    /\ ret[1].reply[1].statusCode = 200
    /\ ret[1].reply[1].contentType = "Text/HTML; charset=utf-8"
    /\ ret[1].reply[1].size = 2020
    /\ ret[1].reply[1].head = <<73, 68, 51, 4>>

(***************************************************************************)
(* The stored local path and the written file                              *)
(***************************************************************************)
\* the stored local path of the row is more than a stub and a regular file
LocalPathUsable(row) ==
    Len(row.local_path) > 5 /\ IsFile(disk, row.local_path)

\* a cache file of the row passes the probe of getTrack
HasValidCache(row) ==
    \E u \in {row.file_url, row.location} \ {EmptyUrl} :
        LET p == CachePathOf(ExternalIdOf(row), row.title, u)
        IN Exists(disk, p) /\ CacheValid(disk[p].size, row.file_size)

\* C28 - Known-local-path probe: a call for a row without valid cache file
\* whose stored local path is longer than 5 characters and a regular file
\* returns that path and issues no request; a stored local path of at most
\* 5 characters, or one that is no regular file, is never what a call returns.
KnownLocalPathProbe ==
    \A c \in Range(ret) :
        /\ (LocalPathUsable(c.row) /\ ~HasValidCache(c.row))
             => /\ c.ok
                /\ c.location = FilePath(c.row.local_path)
                /\ c.gets = 0
                /\ c.reply = <<>>
        /\ ~LocalPathUsable(c.row) => c.location # FilePath(c.row.local_path)

\* a row with a download URL and a stale cache file is served from its stored
\* local path
KnownLocalPathProbeWitness ==
    \E c \in Range(ret) :
        /\ LocalPathUsable(c.row)
        /\ ~HasValidCache(c.row)
        /\ ~UrlIsEmpty(c.row.file_url)
        /\ \E p \in CachePaths : Exists(disk, p)
        /\ c.location = FilePath(LongLocalPath)

\* the reply has no transport error, status 200, no HTML content type and a
\* body that is neither empty nor truncated
PassesChecks(reply, expectedSize) ==
    /\ ~reply.error
    /\ reply.statusCode = 200
    /\ ~IsHtml(reply.contentType)
    /\ reply.size > 0
    /\ ~TruncatedContentLength(reply)
    /\ ~TruncatedApiSize(reply, expectedSize)

\* the branches of downloadTrackSync from the opening of the file on
WriteBranches == {"open", "write", "verify", "downloaded"}

\* C29 - Non-fatal sniff: a download that passes the status, content-type and
\* size checks and whose leading bytes match no audio signature goes on to the
\* write like any other: the call ends in one of the write branches, never in
\* a rejection, and when the write is verified the call returns the cache path
\* and the file there holds the body.
NonFatalSniff ==
    \A c \in Range(ret) :
        (/\ c.reply # <<>>
         /\ PassesChecks(c.reply[1], c.row.file_size)
         /\ ~validAudio(c.reply[1]))
        => /\ c.why \in WriteBranches
           /\ c.why = "downloaded"
                => /\ c.ok
                   /\ c.location = FilePath(c.cachePath)
                   /\ Exists(disk, c.cachePath)
                   /\ disk[c.cachePath].size = c.reply[1].size
           /\ c.why # "downloaded" => ~c.ok

\* a body of 2000 bytes that starts with four zero bytes is in the cache and
\* was returned
NonFatalSniffWitness ==
    \E c \in Range(ret) :
        /\ c.reply # <<>>
        /\ c.reply[1].head = <<0, 0, 0, 0>>
        /\ c.reply[1].size = 2000
        /\ PassesChecks(c.reply[1], c.row.file_size)
        /\ c.ok
        /\ c.location = FilePath(c.cachePath)
        /\ disk[c.cachePath].size = 2000

\* C30 - Write verification: when the file was opened and the number of bytes
\* written, or the size found on disk after the write, differs from the length
\* of the buffer, no file is left at the cache path and the call fails; when
\* both agree the call succeeds and the file at the cache path has exactly
\* the length of the buffer.
WriteVerification ==
    [][(dl # <<>> /\ ret' # <<>> /\ ret'[1].reply # <<>>)
       => LET reply == ret'[1].reply[1]
              destPath == dl[1].destPath
          IN \A w \in WriteOutcomes :
                (w.open /\ ReplyWritten(reply, w))
                => IF w.lost # 0 \/ w.skew # 0
                   THEN /\ ~Exists(disk', destPath)
                        /\ ~ret'[1].ok
                        /\ ret'[1].location = NoPath
                   ELSE /\ ret'[1].ok
                        /\ ret'[1].location = FilePath(destPath)
                        /\ IsFile(disk', destPath)
                        /\ disk'[destPath].size = reply.size]_vars

\* the size found after the write was off: the call failed and the cache path
\* is empty
WriteVerificationWitness ==
    \E c \in Range(ret) :
        /\ c.why = "verify"
        /\ ~c.ok
        /\ c.reply[1].size = 2000
        /\ ~Exists(disk, c.cachePath)

(***************************************************************************)
(* The cache path                                                          *)
(***************************************************************************)
\* the identifier with every '/', '\' and ':' turned into '_'
Replaced(id) ==
    [i \in 1..Len(id) |-> IF id[i] \in {"/", "\\", ":"} THEN "_" ELSE id[i]]

\* the known audio extensions str ends with, case ignored, str being longer
KnownSuffixes(str) ==
    {e \in KnownExtensions :
        /\ Len(str) > Len(e)
        /\ ToLower(SubSeq(str, Len(str) - Len(e) + 1, Len(str))) = e}

\* the extension of the name if it has a known one, else that of the URL
\* path, else .mp3
InferredExtension(row) ==
    IF KnownSuffixes(row.title) # {}
    THEN CHOOSE e \in KnownSuffixes(row.title) : TRUE
    ELSE IF KnownSuffixes(RowUrl(row).path) # {}
    THEN CHOOSE e \in KnownSuffixes(RowUrl(row).path) : TRUE
    ELSE <<".", "m", "p", "3">>

\* C31 as claimed - Cache key derivation: the file name is the identifier with
\* '/', '\' and ':' replaced by '_', followed by the inferred extension.
CacheKeyIsIdPlusExtension ==
    \A c \in Range(ret) :
        c.cachePath # <<>>
        => c.cachePath = CacheDir \o <<"/">> \o Replaced(ExternalIdOf(c.row))
                           \o InferredExtension(c.row)

\* the replaced identifier without the extension it already ends with
StemOf(row) ==
    LET id == Replaced(ExternalIdOf(row))
        e == InferredExtension(row)
    IN IF Len(id) >= Len(e)
          /\ ToLower(SubSeq(id, Len(id) - Len(e) + 1, Len(id))) = ToLower(e)
       THEN SubSeq(id, 1, Len(id) - Len(e))
       ELSE id

\* C31 - Cache key derivation: the file name is the identifier with '/', '\'
\* and ':' replaced by '_', cut by the inferred extension when it already
\* ends with it (case ignored), followed by the inferred extension; the path
\* depends on the row alone.
CacheKeyDerivation ==
    \A c \in Range(ret) :
        c.cachePath # <<>>
        => c.cachePath = CacheDir \o <<"/">> \o StemOf(c.row)
                           \o InferredExtension(c.row)

\* the identifier a.mp3 with the extension .mp3 gives the file a.mp3, and an
\* upper-case suffix of the name is used in lower case
CacheKeyDerivationWitness ==
    \E c \in Range(ret) :
        /\ c.row.external_id = <<"a", ".", "m", "p", "3">>
        /\ c.row.title = <<"s", "o", "n", "g">>
        /\ c.cachePath = CacheDir \o <<"/", "a", ".", "m", "p", "3">>
        /\ Exists(disk, CacheDir \o <<"/", "a", "_", "b", ".", "o", "g", "g">>)

(***************************************************************************)
(* Cancellation                                                            *)
(***************************************************************************)
\* reply id is out of the way after the step: its finished() was handled, or
\* it is marked for abort
AbortedAfter(id) ==
    \A r \in network' : r.id = id => r.aborted

\* C32 - Cancel forgets: after cancelPendingRequests the list of pending
\* requests is empty and every request that was pending and unfinished when
\* it was called has been aborted.
CancelForgets ==
    [][CancelPendingRequests
       => /\ m_pendingReplies' = <<>>
          /\ \A id \in Range(m_pendingReplies) : AbortedAfter(id)]_vars

\* reply r of a paginated fetch was in flight when cancelPendingRequests
\* cleared the list, and no fetch of its key has been started since its own
Cancelled(r) ==
    /\ r \in network
    /\ r.fetch # 0
    /\ r.id \notin Range(m_pendingReplies)
    /\ current[fetches[r.fetch].key] = r.fetch

\* C39 - Cancel suppresses results: a logical fetch that had a page request in
\* flight when cancelPendingRequests was called emits no collection result
\* and issues no further page request, unless a fetch of its key is started
\* afterwards.
CancelSuppressesResults ==
    [][\A h \in Range(handled') :
          Cancelled(h.reply) => /\ Results' = {}
                                /\ nextReply' = nextReply]_vars

(***************************************************************************)
(* Resolving the same track again                                          *)
(***************************************************************************)
\* C33 - Re-resolution stability: when getTrack has just succeeded by
\* downloading and writing the file, the next getTrack of the same row on the
\* unchanged file system returns the same path and issues no request.
ReResolutionStability ==
    [][(/\ ret # <<>>
        /\ ret[1].why = "downloaded"
        /\ GetTrack(ret[1].row))
       => /\ dl' = <<>>
          /\ ret' # <<>>
          /\ ret'[1].ok
          /\ ret'[1].location = ret[1].location
          /\ ret'[1].gets = 0]_vars

(***************************************************************************)
(* One cache file per track                                                *)
(***************************************************************************)
\* C34 - Cache path injectivity: rows with different identifiers derive
\* different cache paths, so the file just downloaded for one identifier is
\* never returned from the cache for a row with another identifier.
CachePathInjectivity ==
    [][\A row \in PathRows :
          (/\ ret # <<>>
           /\ ret[1].why = "downloaded"
           /\ GetTrack(row)
           /\ ret' # <<>>
           /\ ret'[1].why = "cache"
           /\ ret'[1].cachePath = ret[1].cachePath)
          => ExternalIdOf(row) = ExternalIdOf(ret[1].row)]_vars

(***************************************************************************)
(* Size and number of the pages requested                                  *)
(***************************************************************************)
\* C35 - Page size is preserved: every page request of a logical fetch, page 1
\* and the continuations, asks for the page size the caller passed to
\* fetchChannelTracks / fetchFolderContents, whatever the envelopes report.
PageSizePreserved ==
    \A r \in network : r.fetch # 0 => r.pageSize \in Limits

\* the step handled a successful page response of a paginated fetch
PageHandled ==
    /\ seen' # <<>>
    /\ seen'[1].kind = "json"
    /\ seen'[1].success
    /\ handled'[1].reply.fetch # 0

\* the pagination the step read from the envelope
PaginationRead == parsePagination(seen'[1].pagination)

\* the requests the step issued
Issued == {r \in network' : r.id >= nextReply}

ConsistentEnvelope ==
    PaginationRead.hasNext => PaginationRead.page < PaginationRead.totalPages

\* the envelope reports the page that was requested
EchoesPage == PaginationRead.page = handled'[1].reply.page

\* the pages the fetch has requested are 1, 2, ... in this order
RequestedInOrder(f) ==
    \A i \in 1..Len(fetches[f].reqPages) : fetches[f].reqPages[i] = i

FailedBefore(g) ==
    {f \in 1..(g - 1) : fetches[f].key = fetches[g].key /\ fetches[f].failed}

\* C38 - Recovery after failure: when a fetch of a key has failed and none of
\* its requests is in flight, a fetch started for that key afterwards, with
\* no other fetch of the key in flight, emits when it completes entries of its
\* own responses only, none the failed fetch had accumulated, and when it
\* asked for the pages 1..N these are its pages in order.
RecoveryAfterFailure ==
    \A s \in Results :
        (~fetches[s.by].overlapped /\ FailedBefore(s.by) # {})
        => /\ \A t \in Range(s.tracks) : FetchOf(t) = s.by
           /\ RanAlone(s.by) => s.tracks = PagesInOrder(s.by, s.channelId)

\* a fetch that failed on its second page after accumulating the first was
\* followed by a fetch of the same key that emitted a non-empty result
RecoveryAfterFailureWitness ==
    \E s \in Results :
        /\ ~fetches[s.by].overlapped
        /\ s.tracks # <<>>
        /\ \E f \in FailedBefore(s.by) :
              /\ Len(fetches[f].reqPages) = 2
              /\ fetches[f].counts # <<>>
              /\ fetches[f].counts[1] >= 1

(***************************************************************************)
(* The end of a paginated fetch                                            *)
(***************************************************************************)
\* fetch f has been started
Started(f) == f <= Len(fetches)

\* the result of fetch f is being emitted
ResultOf(f) == \E s \in Results : s.by = f

\* fetch f has ended with its result emitted or with an error, or another
\* fetch of its key ran beside it
Ended(f) ==
    /\ Started(f)
    /\ fetches[f].done \/ fetches[f].failed \/ fetches[f].overlapped

\* C36 - Fetch liveness: when every page request is answered in the end and
\* the server paginates consistently, a logical fetch beside which no other
\* fetch of its key runs ends with its result emitted or with an error
\* surfaced, and never with both.
FetchLiveness ==
    /\ \A f \in 1..MaxReplies : Started(f) ~> Ended(f)
    /\ [](\A f \in 1..Len(fetches) :
             /\ ~(fetches[f].done /\ fetches[f].failed)
             /\ ResultOf(f) => fetches[f].done /\ ~fetches[f].failed
             /\ (fetches[f].done \/ fetches[f].failed)
                => \A r \in network : r.fetch # f)

\* a fetch that ran alone emits the result of its two pages
FetchLivenessWitness ==
    \E s \in Results :
        /\ ~fetches[s.by].overlapped
        /\ fetches[s.by].reqPages = <<1, 2>>
        /\ Len(fetches[s.by].counts) = 2

====
